---- MODULE Spec2Model ----
(***************************************************************************)
(* State-machine model of the SFTP admin backend (Flask application under  *)
(* src/server/app): the credential store and audit log kept by AuthService,*)
(* the stateless JWT tokens a client holds, the three route guards of      *)
(* middleware/auth.py, and the HTTP handlers of the auth, user and S3      *)
(* controllers together with the remote calls they issue.                  *)
(*                                                                         *)
(* Every HTTP request is one action: it evaluates the guard, then the      *)
(* handler, changes the stores the handler changes and records the request *)
(* and its answer in `last`.                                               *)
(***************************************************************************)
EXTENDS Integers, Sequences, FiniteSets, TLC

VARIABLES
    users,      \* credential store: username -> account row (models.database.User)
    audit,      \* audit_logs table, in insertion order (models.database.AuditLog)
    now,        \* wall clock, in seconds
    held,       \* the tokens the client holds (tokens are not stored by the server)
    login_user, \* the "user" object of the login response that issued them
    logged_out, \* the held tokens with which a logout was answered 200
    remote,     \* usernames present in the remote (Transfer Family) directory
    store,      \* keys present in the object store (S3 bucket)
    policies,   \* remote directory: username -> the attached policy document
    workers,    \* AuthService.create_user calls in progress, one per worker
    last        \* the last request and the answer it got

vars == <<users, audit, now, held, login_user, logged_out, remote, store,
          policies, workers, last>>

----------------------------------------------------------------------------
(* Bounds of the model *)

MaxTicks == 2            \* the clock advances at most this many times
TickSeconds == 43200     \* seconds per clock step
MaxWorkers == 2          \* concurrent AuthService.create_user calls
MaxAudit == 1            \* audit rows written in one behaviour

(* Program constants *)

JWT_ACCESS_TOKEN_EXPIRES == 3600
JWT_REFRESH_TOKEN_EXPIRES == 86400

----------------------------------------------------------------------------
(* Value domains *)

None == "None"                       \* Python None / JSON null

Usernames == {"admin", "alice", "bob", "carol"}

Roles == {"admin", "user", "readonly", "guest"}     \* "guest": a role outside UserRole

Emails == {None, "a@x.io"}

Passwords == {"admin", "secret1"}

Permissions ==
    {"list_files", "upload_file", "download_file", "delete_own_file",
     "delete_file", "create_folder", "move_file", "manage_users"}

\* bcrypt.hashpw / bcrypt.checkpw: a hash is matched by the password it was
\* made from and by no other password of the model.
hashpw(password) == <<"bcrypt", password>>

checkpw(password, hashed) == hashed = hashpw(password)

NoAccount ==
    [exists |-> FALSE, id |-> 0, password_hash |-> hashpw(None), email |-> None,
     role |-> None, is_active |-> FALSE, last_login |-> -1]

\* The row the application factory inserts when the table has no 'admin'.
AdminAccount ==
    [exists |-> TRUE, id |-> 1, password_hash |-> hashpw("admin"),
     email |-> "admin@atari.com", role |-> "admin", is_active |-> TRUE,
     last_login |-> -1]

NextId(db) == Cardinality({u \in Usernames : db[u].exists}) + 1

check_password(account, password) == checkpw(password, account.password_hash)

----------------------------------------------------------------------------
(* Token service: flask_jwt_extended as the application uses it *)

NoIdentity == [username |-> None, role |-> None, email |-> None]

NoToken == [type |-> None, sub |-> NoIdentity, exp |-> 0]

\* What a client can put in the Authorization header: nothing, bytes that are
\* not a token signed with JWT_SECRET_KEY, or a token the server issued.
Missing == [kind |-> "missing", tok |-> NoToken]

Malformed == [kind |-> "malformed", tok |-> NoToken]

Bearer(tok) == [kind |-> "jwt", tok |-> tok]

Credentials == {Missing, Malformed} \cup {Bearer(t) : t \in held}

create_access_token(identity, expires) ==
    [type |-> "access", sub |-> identity, exp |-> now + expires]

create_refresh_token(identity, expires) ==
    [type |-> "refresh", sub |-> identity, exp |-> now + expires]

\* A verification that consults a revocation list filled at logout.
verify_jwt_in_request_revoking(cred, refresh) ==
    IF cred.kind = "missing" THEN "NoAuthorizationError"
    ELSE IF cred.kind = "malformed" THEN "DecodeError"
    ELSE IF cred.tok.exp <= now THEN "ExpiredSignatureError"
    ELSE IF cred.tok.type # (IF refresh THEN "refresh" ELSE "access")
         THEN "WrongTokenError"
    ELSE IF cred.tok \in logged_out THEN "RevokedTokenError"
    ELSE "ok"

\* verify_jwt_in_request(refresh=...): "ok", or the exception it raises.  The
\* signature and the expiry are checked when the token is decoded, the token
\* type after that.
verify_jwt_in_request(cred, refresh) ==
    IF cred.kind = "missing" THEN "NoAuthorizationError"
    ELSE IF cred.kind = "malformed" THEN "DecodeError"
    ELSE IF cred.tok.exp <= now THEN "ExpiredSignatureError"
    ELSE IF cred.tok.type # (IF refresh THEN "refresh" ELSE "access")
         THEN "WrongTokenError"
    ELSE "ok"

\* get_jwt_identity(): the "sub" claim of the verified token.
get_jwt_identity(cred) == cred.tok.sub

\* A token issue that puts the default role in the identity.
generate_tokens_default_role(user_data) ==
    LET identity == [username |-> user_data.username,
                     role |-> "user",
                     email |-> user_data.email]
    IN [access_token |-> create_access_token(identity, JWT_ACCESS_TOKEN_EXPIRES),
        refresh_token |-> create_refresh_token(identity, JWT_REFRESH_TOKEN_EXPIRES),
        token_type |-> "Bearer",
        expires_in |-> JWT_ACCESS_TOKEN_EXPIRES]

\* AuthService.generate_tokens
generate_tokens(user_data) ==
    LET identity == [username |-> user_data.username,
                     role |-> user_data.role,
                     email |-> user_data.email]
    IN [access_token |-> create_access_token(identity, JWT_ACCESS_TOKEN_EXPIRES),
        refresh_token |-> create_refresh_token(identity, JWT_REFRESH_TOKEN_EXPIRES),
        token_type |-> "Bearer",
        expires_in |-> JWT_ACCESS_TOKEN_EXPIRES]

----------------------------------------------------------------------------
(* Authorization policy *)

\* A map in which the role user holds delete_file where the code's map has
\* delete_own_file.
permissions_map_delete_file(user_role) ==
    IF user_role = "user"
        THEN {"list_files", "upload_file", "download_file", "delete_file"}
    ELSE IF user_role = "readonly"
        THEN {"list_files", "download_file"}
    ELSE {}

permissions_map(user_role) ==
    IF user_role = "user"
        THEN {"list_files", "upload_file", "download_file", "delete_own_file"}
    ELSE IF user_role = "readonly"
        THEN {"list_files", "download_file"}
    ELSE {}

\* A lookup that gives a role missing from the map the permissions of "user".
has_permission_default_user(user, permission) ==
    IF user.role = "admin" THEN TRUE
    ELSE IF user.role \in {"user", "readonly"}
        THEN permission \in permissions_map(user.role)
    ELSE permission \in permissions_map("user")

\* AuthService.has_permission
has_permission(user, permission) ==
    IF user.role = "admin" THEN TRUE
    ELSE permission \in permissions_map(user.role)

----------------------------------------------------------------------------
(* Route guards.  A guard yields the identity and lets the handler run     *)
(* (pass), or answers the request itself.  steps lists, in order, what the *)
(* guard evaluated.                                                        *)

Deny(status, error, steps) ==
    [pass |-> FALSE, status |-> status, error |-> error, steps |-> steps,
     identity |-> NoIdentity]

Allow(identity, steps) ==
    [pass |-> TRUE, status |-> 0, error |-> None, steps |-> steps,
     identity |-> identity]

\* middleware.auth.jwt_required_custom: every exception of the verification
\* is caught and answered 401 "Authentication required".
jwt_required_custom(cred) ==
    IF verify_jwt_in_request(cred, FALSE) = "ok"
        THEN Allow(get_jwt_identity(cred), <<"verify_jwt_in_request">>)
        ELSE Deny(401, "Authentication required", <<"verify_jwt_in_request">>)

\* A guard that looks the permission up before it verifies the token.
permission_required_lookup_first(permission, cred) ==
    IF ~has_permission(get_jwt_identity(cred), permission)
        THEN Deny(403, "Insufficient permissions", <<"has_permission">>)
    ELSE IF verify_jwt_in_request(cred, FALSE) # "ok"
        THEN Deny(500, "Authorization failed",
                  <<"has_permission", "verify_jwt_in_request">>)
    ELSE Allow(get_jwt_identity(cred),
               <<"has_permission", "verify_jwt_in_request">>)

\* middleware.auth.permission_required: the verification runs inside the
\* try block, so its exceptions reach `except Exception` and are answered 500.
permission_required(permission, cred) ==
    IF verify_jwt_in_request(cred, FALSE) # "ok"
        THEN Deny(500, "Authorization failed", <<"verify_jwt_in_request">>)
    ELSE IF ~has_permission(get_jwt_identity(cred), permission)
        THEN Deny(403, "Insufficient permissions",
                  <<"verify_jwt_in_request", "has_permission">>)
    ELSE Allow(get_jwt_identity(cred),
               <<"verify_jwt_in_request", "has_permission">>)

\* middleware.auth.admin_required
admin_required(cred) ==
    IF verify_jwt_in_request(cred, FALSE) # "ok"
        THEN Deny(500, "Authorization failed", <<"verify_jwt_in_request">>)
    ELSE IF get_jwt_identity(cred).role # "admin"
        THEN Deny(403, "Admin access required",
                  <<"verify_jwt_in_request", "admin_check">>)
    ELSE Allow(get_jwt_identity(cred),
               <<"verify_jwt_in_request", "admin_check">>)

\* flask_jwt_extended.jwt_required(refresh=True) on an application whose
\* JWTManager(app) has no custom loaders (register_error_handlers sets its
\* loaders on a second JWTManager that is never bound to the application):
\* the exception reaches the manager's default error handlers.
jwt_required_refresh(cred) ==
    LET v == verify_jwt_in_request(cred, TRUE)
    IN  IF v = "ok"
            THEN Allow(get_jwt_identity(cred), <<"verify_jwt_in_request">>)
        ELSE IF v \in {"NoAuthorizationError", "ExpiredSignatureError"}
            THEN Deny(401, v, <<"verify_jwt_in_request">>)
        ELSE Deny(422, v, <<"verify_jwt_in_request">>)

----------------------------------------------------------------------------
(* AuthService over the credential store *)

\* User.query.filter_by(username=...).first(); NoAccount stands for None.
first_by_username(db, username) ==
    IF username \in DOMAIN db /\ db[username].exists THEN db[username]
    ELSE NoAccount

AuditLog(user_id, username, action, details) ==
    [user_id |-> user_id, username |-> username, action |-> action,
     details |-> details]

\* AuthService.create_user: the unique constraints on username and email make
\* the commit fail; the failure is rolled back and reported as None.
create_user_local(username, password, email, role) ==
    IF first_by_username(users, username).exists
        THEN [created |-> FALSE, users |-> users]
    ELSE IF email # None
            /\ \E u \in Usernames : users[u].exists /\ users[u].email = email
        THEN [created |-> FALSE, users |-> users]
    ELSE [created |-> TRUE,
          users |-> [users EXCEPT ![username] =
                        [exists |-> TRUE, id |-> NextId(users),
                         password_hash |-> hashpw(password), email |-> email,
                         role |-> role, is_active |-> TRUE, last_login |-> -1]]]

\* An authenticate that accepts, besides the bootstrap admin, only the
\* accounts the remote directory has.
authenticate_in_directory(username, password) ==
    LET user == first_by_username(users, username)
    IN  IF /\ user.exists /\ user.is_active /\ check_password(user, password)
           /\ (username = "admin" \/ username \in remote)
        THEN [user_data |-> [id |-> user.id, username |-> username,
                             role |-> user.role, email |-> user.email],
              ok |-> TRUE,
              users |-> [users EXCEPT ![username].last_login = now],
              audit |-> Append(audit,
                               AuditLog(user.id, username, "login",
                                        [success |-> TRUE, reason |-> None]))]
        ELSE [user_data |-> [id |-> 0, username |-> None, role |-> None,
                             email |-> None],
              ok |-> FALSE,
              users |-> users,
              audit |-> Append(audit,
                               AuditLog(IF user.exists THEN user.id ELSE 0,
                                        username, "login_failed",
                                        [success |-> FALSE,
                                         reason |-> "invalid_credentials"]))]

\* AuthService.authenticate
authenticate(username, password) ==
    LET user == first_by_username(users, username)
    IN  IF user.exists /\ user.is_active /\ check_password(user, password)
        THEN [user_data |-> [id |-> user.id, username |-> username,
                             role |-> user.role, email |-> user.email],
              ok |-> TRUE,
              users |-> [users EXCEPT ![username].last_login = now],
              audit |-> Append(audit,
                               AuditLog(user.id, username, "login",
                                        [success |-> TRUE, reason |-> None]))]
        ELSE [user_data |-> [id |-> 0, username |-> None, role |-> None,
                             email |-> None],
              ok |-> FALSE,
              users |-> users,
              audit |-> Append(audit,
                               AuditLog(IF user.exists THEN user.id ELSE 0,
                                        username, "login_failed",
                                        [success |-> FALSE,
                                         reason |-> "invalid_credentials"]))]

\* A Python value handed to a query: a str, or the dict a token identity is.
PyStr(s) == [py |-> "str", v |-> s, d |-> NoIdentity]

PyDict(d) == [py |-> "dict", v |-> None, d |-> d]

\* AuthService.change_password.  A dict bound as the username of the query
\* makes the database driver raise; the except branch rolls back and
\* returns False.
change_password(username, current_password, new_password) ==
    IF username.py # "str"
        THEN [ok |-> FALSE, users |-> users, audit |-> audit]
    ELSE LET user == first_by_username(users, username.v)
         IN  IF user.exists /\ check_password(user, current_password)
             THEN [ok |-> TRUE,
                   users |-> [users EXCEPT ![username.v].password_hash =
                                               hashpw(new_password)],
                   audit |-> Append(audit,
                                    AuditLog(user.id, username.v, "password_change",
                                             [success |-> TRUE, reason |-> None]))]
             ELSE [ok |-> FALSE, users |-> users, audit |-> audit]

\* AuthService.refresh_access_token(self, current_user), called with the
\* positional arguments args: any other number of arguments is a TypeError.
refresh_access_token(args) ==
    IF Len(args) # 1
        THEN [raised |-> "TypeError", token |-> NoToken]
        ELSE [raised |-> None,
              token |-> create_access_token(args[1], JWT_ACCESS_TOKEN_EXPIRES)]

----------------------------------------------------------------------------
(* Requests and answers *)

NoReq ==
    [username |-> None, password |-> None, new_password |-> None,
     confirm |-> None, key |-> <<>>, dest |-> <<>>, permission |-> None]

NoBody == [user |-> NoIdentity, access_token |-> NoToken, refresh_token |-> NoToken]

\* The answer of endpoint ep to a request: steps is what ran, in order (the
\* guard's steps, then "handler" when the wrapped function was called),
\* calls the remote calls the request made, in order.
Answer(ep, cred, req, steps, status, error, calls, body) ==
    [ep |-> ep, cred |-> cred, req |-> req, steps |-> steps, status |-> status,
     error |-> error, calls |-> calls, body |-> body]

\* The answer a guard gives when it does not let the handler run.
Refused(ep, cred, req, guard) ==
    Answer(ep, cred, req, guard.steps, guard.status, guard.error, <<>>, NoBody)

Handled(guard) == Append(guard.steps, "handler")

Idle == Answer("none", Missing, NoReq, <<>>, 0, None, <<>>, NoBody)

UserView(identity) ==
    [username |-> identity.username, role |-> identity.role, email |-> identity.email]

----------------------------------------------------------------------------
(* controllers/auth_controller.py *)

LoginNames == Usernames \cup {"nobody"}

\* POST /api/auth/login
login(username, password) ==
    LET req == [NoReq EXCEPT !.username = username, !.password = password]
    IN  IF username = "" \/ password = ""
        THEN /\ last' = Answer("login", Missing, req, <<"handler">>, 400,
                               "Missing credentials", <<>>, NoBody)
             /\ UNCHANGED <<users, audit, held, login_user, logged_out>>
        ELSE /\ Len(audit) < MaxAudit
             /\ LET r == authenticate(username, password)
                    tokens == generate_tokens(r.user_data)
                IN  /\ users' = r.users
                    /\ audit' = r.audit
                    /\ IF ~r.ok
                       THEN /\ last' = Answer("login", Missing, req, <<"handler">>,
                                              401, "Authentication failed", <<>>,
                                              NoBody)
                            /\ UNCHANGED <<held, login_user, logged_out>>
                       ELSE /\ last' = Answer("login", Missing, req, <<"handler">>,
                                              200, None, <<>>,
                                              [user |-> UserView(r.user_data),
                                               access_token |-> tokens.access_token,
                                               refresh_token |-> tokens.refresh_token])
                            /\ held' = {tokens.access_token, tokens.refresh_token}
                            /\ login_user' = UserView(r.user_data)
                            /\ logged_out' = {}

Login ==
    /\ last = Idle
    /\ \E username \in LoginNames, password \in Passwords \cup {""} :
            login(username, password)
    /\ UNCHANGED <<now, remote, store>>
    /\ UNCHANGED <<policies, workers>>

\* POST /api/auth/refresh.  get_jwt() holds the identity under "sub" and no
\* "role" or "email" claim, so the handler reads the defaults.
refresh(cred) ==
    LET guard == jwt_required_refresh(cred)
        identity == guard.identity
        r == refresh_access_token(<<identity, "user", "">>)
    IN  IF ~guard.pass
        THEN /\ last' = Refused("refresh", cred, NoReq, guard)
             /\ UNCHANGED held
        ELSE IF r.raised # None
        THEN /\ last' = Answer("refresh", cred, NoReq, Handled(guard), 500,
                               "Token refresh failed", <<>>, NoBody)
             /\ UNCHANGED held
        ELSE /\ last' = Answer("refresh", cred, NoReq, Handled(guard), 200, None,
                               <<>>, [NoBody EXCEPT !.access_token = r.token])
             /\ held' = {t \in held : t.type = "refresh"} \cup {r.token}

Refresh ==
    /\ last = Idle
    /\ \E cred \in Credentials : refresh(cred)
    /\ UNCHANGED <<users, audit, now, login_user, logged_out, remote, store>>
    /\ UNCHANGED <<policies, workers>>

\* GET /api/auth/me
get_current_user(cred) ==
    LET guard == jwt_required_custom(cred)
    IN  IF ~guard.pass
        THEN last' = Refused("get_current_user", cred, NoReq, guard)
        ELSE last' = Answer("get_current_user", cred, NoReq, Handled(guard), 200,
                            None, <<>>,
                            [NoBody EXCEPT !.user = UserView(guard.identity)])

Me ==
    /\ last = Idle
    /\ \E cred \in Credentials : get_current_user(cred)
    /\ UNCHANGED <<users, audit, now, held, login_user, logged_out, remote, store>>
    /\ UNCHANGED <<policies, workers>>

\* POST /api/auth/logout
logout(cred) ==
    LET guard == jwt_required_custom(cred)
    IN  IF ~guard.pass
        THEN /\ last' = Refused("logout", cred, NoReq, guard)
             /\ UNCHANGED <<users, audit, held, logged_out>>
        ELSE /\ last' = Answer("logout", cred, NoReq, Handled(guard), 200, None,
                               <<>>, NoBody)
             /\ logged_out' = held
             /\ UNCHANGED <<users, audit, held>>

Logout ==
    /\ last = Idle
    /\ \E cred \in Credentials : logout(cred)
    /\ UNCHANGED <<now, login_user, remote, store>>
    /\ UNCHANGED <<policies, workers>>

\* POST /api/auth/change-password: the "username" handed to the service is
\* the whole identity dict of the token.
auth_change_password(cred, current_password, new_password) ==
    LET guard == jwt_required_custom(cred)
        req == [NoReq EXCEPT !.password = current_password,
                             !.new_password = new_password]
        r == change_password(PyDict(guard.identity), current_password, new_password)
    IN  IF ~guard.pass
        THEN /\ last' = Refused("change_password", cred, req, guard)
             /\ UNCHANGED <<users, audit>>
        ELSE IF current_password = "" \/ new_password = ""
        THEN /\ last' = Answer("change_password", cred, req, Handled(guard), 400,
                               "Missing passwords", <<>>, NoBody)
             /\ UNCHANGED <<users, audit>>
        ELSE /\ Len(r.audit) <= MaxAudit
             /\ users' = r.users
             /\ audit' = r.audit
             /\ last' = Answer("change_password", cred, req, Handled(guard),
                               IF r.ok THEN 200 ELSE 400,
                               IF r.ok THEN None ELSE "Password change failed",
                               <<>>, NoBody)

AuthChangePassword ==
    /\ last = Idle
    /\ \E cred \in Credentials, current_password \in Passwords,
          new_password \in {"secret2"} :
            auth_change_password(cred, current_password, new_password)
    /\ UNCHANGED <<now, held, login_user, logged_out, remote, store>>
    /\ UNCHANGED <<policies, workers>>

----------------------------------------------------------------------------
(* services/user_service.py: the remote (Transfer Family) directory *)

\* The usernames the user-management requests of the model name.
Targets == {"admin", "bob"}

\* UserService.get_user: describe_user; ResourceNotFoundException is None.
get_user(username) == username \in remote

\* UserCreateRequest.validate, for the fields the requests of the model vary:
\* the model's usernames all match ^[a-zA-Z0-9_-]+$ and have 3 characters or
\* more, the role is the default, there is no email and no home directory.
UserCreateRequest_validate(username, password) ==
    Len(username) >= 3 /\ password # "" /\ Len(password) >= 6

\* PasswordChangeRequest.validate
PasswordChangeRequest_validate(currentPassword, newPassword, confirmPassword) ==
    /\ currentPassword # ""
    /\ newPassword # "" /\ Len(newPassword) >= 6
    /\ newPassword = confirmPassword

\* UserService.create_user: [raised, remote, calls]
UserService_create_user(username) ==
    IF username \in remote
        THEN [raised |-> "ResourceExistsException", remote |-> remote,
              calls |-> <<"create_user">>]
        ELSE [raised |-> None, remote |-> remote \cup {username},
              calls |-> <<"create_user", "describe_user">>]

\* Config.S3_BUCKET_NAME
S3_BUCKET_NAME == "atari-files-transfer"

\* The policy of a user that has none (the Policy parameter was never sent).
NoPolicy == [Version |-> None, Statement |-> <<>>]

\* A policy generator that emits the object statement of a folder only.
folder_statements_object_only(folder) ==
    << [Effect |-> "Allow",
        Action |-> <<"s3:GetObject", "s3:PutObject", "s3:DeleteObject">>,
        Resource |-> <<"arn:aws:s3:::", S3_BUCKET_NAME, "/", folder, "/*">>] >>

\* The two statements UserService._generate_user_policy emits for one folder;
\* an f-string is the sequence of its parts.
folder_statements(folder) ==
    << [Effect |-> "Allow",
        Action |-> <<"s3:GetObject", "s3:PutObject", "s3:DeleteObject">>,
        Resource |-> <<"arn:aws:s3:::", S3_BUCKET_NAME, "/", folder, "/*">>],
       [Effect |-> "Allow",
        Action |-> <<"s3:ListBucket">>,
        Resource |-> <<"arn:aws:s3:::", S3_BUCKET_NAME>>,
        Condition |-> [StringLike |-> [s3_prefix |-> <<folder, "/*">>]]] >>

RECURSIVE policy_statements(_)

\* statements.extend([...]) for every folder, in the order of the list
policy_statements(allowed_folders) ==
    IF allowed_folders = <<>> THEN <<>>
    ELSE folder_statements(Head(allowed_folders))
             \o policy_statements(Tail(allowed_folders))

\* UserService._generate_user_policy: None (NoPolicy) for an empty list, else
\* the policy document that json.dumps serialises.
generate_user_policy(allowed_folders) ==
    IF allowed_folders = <<>> THEN NoPolicy
    ELSE [Version |-> "2012-10-17", Statement |-> policy_statements(allowed_folders)]

\* The allowedFolders of an update request: None when the request omits it.
Omitted == [present |-> FALSE, list |-> <<>>]

Folders(list) == [present |-> TRUE, list |-> list]

\* UserService.update_user
UserService_update_user(username, allowedFolders) ==
    IF ~get_user(username)
        THEN [raised |-> "not found", calls |-> <<"describe_user">>,
              policies |-> policies]
    ELSE IF allowedFolders.present
            /\ generate_user_policy(allowedFolders.list) # NoPolicy
        THEN [raised |-> None,
              calls |-> <<"describe_user", "update_user", "describe_user">>,
              policies |-> [policies EXCEPT ![username] =
                                generate_user_policy(allowedFolders.list)]]
    ELSE [raised |-> None, calls |-> <<"describe_user", "describe_user">>,
          policies |-> policies]

\* UserService.delete_user
UserService_delete_user(username) ==
    IF ~get_user(username)
        THEN [raised |-> "not found", remote |-> remote, policies |-> policies,
              calls |-> <<"describe_user">>]
        ELSE [raised |-> None, remote |-> remote \ {username},
              policies |-> [policies EXCEPT ![username] = NoPolicy],
              calls |-> <<"describe_user", "delete_user">>]

\* UserService.change_password: validates the request, looks the user up and
\* reports success; no password is read or written.
UserService_change_password(username, currentPassword, newPassword, confirmPassword) ==
    IF ~PasswordChangeRequest_validate(currentPassword, newPassword, confirmPassword)
        THEN [raised |-> "ValueError", ok |-> FALSE, calls |-> <<>>]
    ELSE IF ~get_user(username)
        THEN [raised |-> "not found", ok |-> FALSE, calls |-> <<"describe_user">>]
    ELSE [raised |-> None, ok |-> TRUE, calls |-> <<"describe_user">>]

\* UserService.list_users: one list_users page, then describe_user per user.
UserService_list_users ==
    <<"list_users">> \o [i \in 1..Cardinality(remote) |-> "describe_user"]

----------------------------------------------------------------------------
(* controllers/user_controller.py *)

\* GET /api/users
list_users(cred) ==
    LET guard == jwt_required_custom(cred)
    IN  IF ~guard.pass
        THEN Refused("list_users", cred, NoReq, guard)
        ELSE Answer("list_users", cred, NoReq, Handled(guard), 200, None,
                    UserService_list_users, NoBody)

\* GET /api/users/<username>
get_user_endpoint(cred, username) ==
    LET guard == jwt_required_custom(cred)
        req == [NoReq EXCEPT !.username = username]
    IN  IF ~guard.pass
        THEN Refused("get_user", cred, req, guard)
        ELSE Answer("get_user", cred, req, Handled(guard),
                    IF get_user(username) THEN 200 ELSE 404,
                    IF get_user(username) THEN None ELSE "User not found",
                    <<"describe_user">>, NoBody)

\* GET /api/user-credentials/<username>
get_user_credentials(cred, username) ==
    LET guard == admin_required(cred)
        req == [NoReq EXCEPT !.username = username]
    IN  IF ~guard.pass
        THEN Refused("get_user_credentials", cred, req, guard)
        ELSE Answer("get_user_credentials", cred, req, Handled(guard),
                    IF get_user(username) THEN 200 ELSE 404,
                    IF get_user(username) THEN None ELSE "User not found",
                    <<"describe_user">>, NoBody)

\* PUT /api/users/<username>
update_user(cred, username, allowedFolders) ==
    LET guard == admin_required(cred)
        req == [NoReq EXCEPT !.username = username]
        r == UserService_update_user(username, allowedFolders)
    IN  IF ~guard.pass
        THEN /\ last' = Refused("update_user", cred, req, guard)
             /\ UNCHANGED policies
        ELSE /\ last' = Answer("update_user", cred, req, Handled(guard),
                               IF r.raised = None THEN 200 ELSE 500,
                               IF r.raised = None THEN None
                                   ELSE "Failed to update user",
                               r.calls, NoBody)
             /\ policies' = r.policies

UpdateUser ==
    /\ last = Idle
    /\ \E cred \in Credentials, username \in Targets,
          allowedFolders \in {Omitted, Folders(<<"reports">>)} :
            update_user(cred, username, allowedFolders)
    /\ UNCHANGED <<users, audit, now, held, login_user, logged_out, remote, store>>
    /\ UNCHANGED workers

ReadUsers ==
    /\ last = Idle
    /\ \E cred \in Credentials, username \in Targets :
          last' \in {list_users(cred), get_user_endpoint(cred, username),
                     get_user_credentials(cred, username)}
    /\ UNCHANGED <<users, audit, now, held, login_user, logged_out, remote, store>>
    /\ UNCHANGED <<policies, workers>>

\* POST /api/create-user
create_user(cred, username, password) ==
    LET guard == admin_required(cred)
        req == [NoReq EXCEPT !.username = username, !.password = password]
        r == UserService_create_user(username)
    IN  IF ~guard.pass
        THEN /\ last' = Refused("create_user", cred, req, guard)
             /\ UNCHANGED remote
        ELSE IF ~UserCreateRequest_validate(username, password)
        THEN /\ last' = Answer("create_user", cred, req, Handled(guard), 400,
                               "Validation error", <<>>, NoBody)
             /\ UNCHANGED remote
        ELSE /\ last' = Answer("create_user", cred, req, Handled(guard),
                               IF r.raised = None THEN 201 ELSE 500,
                               IF r.raised = None THEN None
                                   ELSE "Failed to create user",
                               r.calls, NoBody)
             /\ remote' = r.remote

CreateUser ==
    /\ last = Idle
    /\ \E cred \in Credentials, username \in Targets,
          password \in {"secret1", "short"} :
            create_user(cred, username, password)
    /\ UNCHANGED <<users, audit, now, held, login_user, logged_out, store>>
    /\ UNCHANGED <<policies, workers>>

\* A delete handler without the check against the requester's own username.
delete_user_no_self_check(cred, username) ==
    LET guard == admin_required(cred)
        req == [NoReq EXCEPT !.username = username]
        r == UserService_delete_user(username)
    IN  IF ~guard.pass
        THEN /\ last' = Refused("delete_user", cred, req, guard)
             /\ UNCHANGED <<remote, policies>>
        ELSE /\ last' = Answer("delete_user", cred, req, Handled(guard),
                               IF r.raised = None THEN 200 ELSE 500,
                               IF r.raised = None THEN None
                                   ELSE "Failed to delete user",
                               r.calls, NoBody)
             /\ remote' = r.remote
             /\ policies' = r.policies

\* DELETE /api/delete-user/<username>
delete_user(cred, username) ==
    LET guard == admin_required(cred)
        req == [NoReq EXCEPT !.username = username]
        r == UserService_delete_user(username)
    IN  IF ~guard.pass
        THEN /\ last' = Refused("delete_user", cred, req, guard)
             /\ UNCHANGED <<remote, policies>>
        ELSE IF guard.identity.username = username
        THEN /\ last' = Answer("delete_user", cred, req, Handled(guard), 400,
                               "Cannot delete current user", <<>>, NoBody)
             /\ UNCHANGED <<remote, policies>>
        ELSE /\ last' = Answer("delete_user", cred, req, Handled(guard),
                               IF r.raised = None THEN 200 ELSE 500,
                               IF r.raised = None THEN None
                                   ELSE "Failed to delete user",
                               r.calls, NoBody)
             /\ remote' = r.remote
             /\ policies' = r.policies

DeleteUser ==
    /\ last = Idle
    /\ \E cred \in Credentials, username \in Targets : delete_user(cred, username)
    /\ UNCHANGED <<users, audit, now, held, login_user, logged_out, store>>
    /\ UNCHANGED workers

\* data.get(key, default) of the JSON body: None stands for a key the body
\* does not have.
data_get(value, default) == IF value = None THEN default ELSE value

\* PATCH /api/users/<username>/password
change_user_password(cred, username, currentPassword, newPassword, confirmPassword) ==
    LET guard == jwt_required_custom(cred)
        req == [NoReq EXCEPT !.username = username, !.password = currentPassword,
                             !.new_password = newPassword,
                             !.confirm = confirmPassword]
        r == UserService_change_password(username, data_get(currentPassword, ""),
                                         data_get(newPassword, ""),
                                         data_get(confirmPassword, ""))
    IN  IF ~guard.pass
        THEN Refused("change_user_password", cred, req, guard)
        ELSE IF guard.identity.username # username /\ guard.identity.role # "admin"
        THEN Answer("change_user_password", cred, req, Handled(guard), 403,
                    "Permission denied", <<>>, NoBody)
        ELSE Answer("change_user_password", cred, req, Handled(guard),
                    IF r.raised = "ValueError" THEN 400
                    ELSE IF r.raised # None THEN 500
                    ELSE IF r.ok THEN 200 ELSE 400,
                    IF r.raised = "ValueError" THEN "Validation error"
                    ELSE IF r.raised # None THEN "Failed to change password"
                    ELSE IF r.ok THEN None ELSE "Password change failed",
                    r.calls, NoBody)

ChangeUserPassword ==
    /\ last = Idle
    /\ \E cred \in Credentials, username \in Targets,
          currentPassword \in Passwords, newPassword \in {"secret2", "short"},
          confirmPassword \in {None, "secret2", "secret3"} :
            last' = change_user_password(cred, username, currentPassword,
                                         newPassword, confirmPassword)
    /\ UNCHANGED <<users, audit, now, held, login_user, logged_out, remote, store>>
    /\ UNCHANGED <<policies, workers>>

----------------------------------------------------------------------------
(* controllers/s3_controller.py over services/s3_service.py.  An object key *)
(* is the sequence of its '/'-separated segments.                           *)

Keys == {<<"alice", "file.txt">>, <<"bob", "file.txt">>}

\* The keys the requests of the model name: <<"bob">> is the key "bob".
RequestKeys == Keys \cup {<<"bob">>}

\* key.startswith(f"{username}/"), for a username without '/'
startswith_user(key, username) == Len(key) >= 2 /\ key[1] = username

\* S3Service.delete_object: deleting an absent key succeeds.
S3_delete_object(bucket, key) ==
    [raised |-> None, store |-> bucket \ {key}, calls |-> <<"delete_object">>]

\* S3Service.copy_object: copying an absent key raises NoSuchKey.
S3_copy_object(bucket, source_key, destination_key) ==
    IF source_key \notin bucket
        THEN [raised |-> "NoSuchKey", store |-> bucket, calls |-> <<"copy_object">>]
        ELSE [raised |-> None, store |-> bucket \cup {destination_key},
              calls |-> <<"copy_object">>]

\* S3Service.move_object: copy, then delete the source.
S3_move_object(bucket, source_key, destination_key) ==
    LET c == S3_copy_object(bucket, source_key, destination_key)
        d == S3_delete_object(c.store, source_key)
    IN  IF c.raised # None THEN c
        ELSE [raised |-> d.raised, store |-> d.store, calls |-> c.calls \o d.calls]

\* The endpoints that only read the bucket or presign a URL:
\* GET /api/folders
list_folders(cred) ==
    LET guard == jwt_required_custom(cred)
    IN  IF ~guard.pass THEN Refused("list_folders", cred, NoReq, guard)
        ELSE Answer("list_folders", cred, NoReq, Handled(guard), 200, None,
                    <<"list_objects_v2">>, NoBody)

\* GET /api/files, GET /api/files/<folder>, GET /api/info/<key>,
\* POST /api/upload, GET /api/download/<key>
permitted_read(ep, permission, call, cred, key) ==
    LET guard == permission_required(permission, cred)
        req == [NoReq EXCEPT !.key = key]
    IN  IF ~guard.pass THEN Refused(ep, cred, req, guard)
        ELSE Answer(ep, cred, req, Handled(guard), 200, None, <<call>>, NoBody)

list_files(cred) ==
    permitted_read("list_files", "list_files", "list_objects_v2", cred, <<>>)

list_files_in_folder(cred, folder_name) ==
    permitted_read("list_files_in_folder", "list_files", "list_objects_v2", cred,
                   <<folder_name, "">>)

generate_upload_url(cred) ==
    permitted_read("generate_upload_url", "upload_file", "generate_presigned_post",
                   cred, <<"file.txt">>)

generate_download_url(cred, object_key) ==
    permitted_read("generate_download_url", "download_file",
                   "generate_presigned_url", cred, object_key)

get_object_info(cred, object_key) ==
    LET guard == permission_required("list_files", cred)
        req == [NoReq EXCEPT !.key = object_key]
    IN  IF ~guard.pass THEN Refused("get_object_info", cred, req, guard)
        ELSE Answer("get_object_info", cred, req, Handled(guard),
                    IF object_key \in store THEN 200 ELSE 404,
                    IF object_key \in store THEN None ELSE "Object not found",
                    <<"head_object">>, NoBody)

ReadFiles ==
    /\ last = Idle
    /\ \E cred \in Credentials, key \in Keys :
          last' \in {list_folders(cred), list_files(cred),
                     list_files_in_folder(cred, key[1]),
                     generate_upload_url(cred),
                     generate_download_url(cred, key),
                     get_object_info(cred, key)}
    /\ UNCHANGED <<users, audit, now, held, login_user, logged_out, remote, store>>
    /\ UNCHANGED <<policies, workers>>

\* A delete handler that is guarded by delete_own_file and does not compare
\* the key with the requester's prefix.
delete_object_no_prefix_check(cred, object_key) ==
    LET guard == permission_required("delete_own_file", cred)
        req == [NoReq EXCEPT !.key = object_key]
        r == S3_delete_object(store, object_key)
    IN  IF ~guard.pass
        THEN /\ last' = Refused("delete_object", cred, req, guard)
             /\ UNCHANGED store
        ELSE /\ last' = Answer("delete_object", cred, req, Handled(guard), 200,
                               None, r.calls, NoBody)
             /\ store' = r.store

\* DELETE /api/delete/<object_key>
delete_object(cred, object_key) ==
    LET guard == permission_required("delete_file", cred)
        req == [NoReq EXCEPT !.key = object_key]
        current_user == guard.identity
        r == S3_delete_object(store, object_key)
    IN  IF ~guard.pass
        THEN /\ last' = Refused("delete_object", cred, req, guard)
             /\ UNCHANGED store
        ELSE IF current_user.role # "admin"
                /\ ~startswith_user(object_key, current_user.username)
        THEN /\ last' = Answer("delete_object", cred, req, Handled(guard), 403,
                               "Permission denied", <<>>, NoBody)
             /\ UNCHANGED store
        ELSE /\ last' = Answer("delete_object", cred, req, Handled(guard), 200,
                               None, r.calls, NoBody)
             /\ store' = r.store

DeleteObject ==
    /\ last = Idle
    /\ \E cred \in Credentials, key \in RequestKeys : delete_object(cred, key)
    /\ UNCHANGED <<users, audit, now, held, login_user, logged_out, remote>>
    /\ UNCHANGED <<policies, workers>>

\* POST /api/move
move_object(cred, source_key, destination_key) ==
    LET guard == permission_required("move_file", cred)
        req == [NoReq EXCEPT !.key = source_key, !.dest = destination_key]
        current_user == guard.identity
        r == S3_move_object(store, source_key, destination_key)
    IN  IF ~guard.pass
        THEN /\ last' = Refused("move_object", cred, req, guard)
             /\ UNCHANGED store
        ELSE IF current_user.role # "admin"
                /\ (\/ ~startswith_user(source_key, current_user.username)
                    \/ ~startswith_user(destination_key, current_user.username))
        THEN /\ last' = Answer("move_object", cred, req, Handled(guard), 403,
                               "Permission denied", <<>>, NoBody)
             /\ UNCHANGED store
        ELSE /\ last' = Answer("move_object", cred, req, Handled(guard),
                               IF r.raised = None THEN 200 ELSE 500,
                               IF r.raised = None THEN None
                                   ELSE "Failed to move object",
                               r.calls, NoBody)
             /\ store' = r.store

\* The model's move requests name two different keys.
MoveObject ==
    /\ last = Idle
    /\ \E cred \in Credentials, source_key \in RequestKeys :
          \E destination_key \in Keys \ {source_key} :
            move_object(cred, source_key, destination_key)
    /\ UNCHANGED <<users, audit, now, held, login_user, logged_out, remote>>
    /\ UNCHANGED <<policies, workers>>

\* POST /api/create-folder, with the valid folder name "reports"
create_folder(cred) ==
    LET guard == permission_required("create_folder", cred)
        req == [NoReq EXCEPT !.key = <<"reports", "">>]
    IN  IF ~guard.pass
        THEN /\ last' = Refused("create_folder", cred, req, guard)
             /\ UNCHANGED store
        ELSE /\ last' = Answer("create_folder", cred, req, Handled(guard), 201,
                               None, <<"put_object">>, NoBody)
             /\ store' = store \cup {<<"reports", "">>}

CreateFolder ==
    /\ last = Idle
    /\ \E cred \in Credentials : create_folder(cred)
    /\ UNCHANGED <<users, audit, now, held, login_user, logged_out, remote>>
    /\ UNCHANGED <<policies, workers>>

----------------------------------------------------------------------------
(* controllers/dashboard_controller.py: GET /api/dashboard/stats and        *)
(* /recent-activity call UserService.get_dashboard_stats and                *)
(* get_recent_activity, which UserService does not define: the              *)
(* AttributeError is answered 500.                                          *)

dashboard(ep, cred) ==
    LET guard == jwt_required_custom(cred)
    IN  IF ~guard.pass THEN Refused(ep, cred, NoReq, guard)
        ELSE Answer(ep, cred, NoReq, Handled(guard), 500,
                    "Failed to get dashboard data", <<>>, NoBody)

Dashboard ==
    /\ last = Idle
    /\ \E cred \in Credentials :
          last' \in {dashboard("get_dashboard_stats", cred),
                     dashboard("get_recent_activity", cred)}
    /\ UNCHANGED <<users, audit, now, held, login_user, logged_out, remote, store>>
    /\ UNCHANGED <<policies, workers>>

----------------------------------------------------------------------------
(* Environment *)

\* The client reads the answer; it sends its next request after that.
Deliver ==
    /\ last # Idle
    /\ last' = Idle
    /\ UNCHANGED <<users, audit, now, held, login_user, logged_out, remote, store>>
    /\ UNCHANGED <<policies, workers>>

\* Time passes.
Tick ==
    /\ last = Idle
    /\ now < MaxTicks * TickSeconds
    /\ now' = now + TickSeconds
    /\ last' = Idle
    /\ UNCHANGED <<users, audit, held, login_user, logged_out, remote, store>>
    /\ UNCHANGED <<policies, workers>>

\* The accounts an operator provisions with AuthService.create_user: one of
\* each role a non-bootstrap account of the model has.
Profiles ==
    {[username |-> "alice", email |-> "a@x.io", role |-> "readonly"],
     [username |-> "bob", email |-> None, role |-> "user"],
     [username |-> "carol", email |-> "a@x.io", role |-> "guest"]}

ProvisionAccount ==
    /\ last = Idle
    /\ \E p \in Profiles :
            LET r == create_user_local(p.username, "secret1", p.email, p.role)
            IN  /\ users' = r.users
                /\ last' = Answer("AuthService.create_user", Missing,
                                  [NoReq EXCEPT !.username = p.username],
                                  <<"handler">>, IF r.created THEN 201 ELSE 409,
                                  None, <<>>, NoBody)
    /\ UNCHANGED <<audit, now, held, login_user, logged_out, remote, store>>
    /\ UNCHANGED <<policies, workers>>

----------------------------------------------------------------------------

\* The workers that serve concurrent calls, and a worker without a call.
Workers == 1..MaxWorkers

NoCall ==
    [pc |-> "idle", username |-> None, email |-> None, role |-> None,
     returned |-> 0]

Init ==
    /\ users = [u \in Usernames |-> IF u = "admin" THEN AdminAccount ELSE NoAccount]
    /\ audit = <<>>
    /\ now = 0
    /\ held = {}
    /\ login_user = NoIdentity
    /\ logged_out = {}
    /\ remote = {"bob"}
    /\ store = Keys
    /\ policies = [u \in Usernames |-> NoPolicy]
    /\ workers = [w \in Workers |-> NoCall]
    /\ last = Idle

Next ==
    \/ Login
    \/ Refresh
    \/ Me
    \/ Logout
    \/ AuthChangePassword
    \/ ReadUsers
    \/ UpdateUser
    \/ CreateUser
    \/ DeleteUser
    \/ ChangeUserPassword
    \/ ReadFiles
    \/ DeleteObject
    \/ MoveObject
    \/ CreateFolder
    \/ Dashboard
    \/ Tick
    \/ ProvisionAccount
    \/ Deliver

Spec == Init /\ [][Next]_vars

----------------------------------------------------------------------------
(* The authorization policy as a function of its inputs: has_permission is *)
(* applied to every identity and permission name of the model.             *)

Identities == [username : Usernames, role : Roles, email : Emails]

CheckPermission ==
    /\ last = Idle
    /\ \E identity \in Identities, permission \in Permissions :
          last' = Answer("has_permission", Missing,
                         [NoReq EXCEPT !.permission = permission], <<"handler">>,
                         IF has_permission(identity, permission) THEN 200 ELSE 403,
                         None, <<>>, [NoBody EXCEPT !.user = identity])
    /\ UNCHANGED <<users, audit, now, held, login_user, logged_out, remote, store>>
    /\ UNCHANGED <<policies, workers>>

PolicyNext == CheckPermission \/ Deliver

SpecPolicy == Init /\ [][PolicyNext]_vars

----------------------------------------------------------------------------
(* The route table: which guard decorates which handler *)

PermissionOf ==
    [list_files |-> "list_files", list_files_in_folder |-> "list_files",
     generate_upload_url |-> "upload_file",
     generate_download_url |-> "download_file", get_object_info |-> "list_files",
     delete_object |-> "delete_file", create_folder |-> "create_folder",
     move_object |-> "move_file"]

PermissionGuarded == DOMAIN PermissionOf

AdminGuarded == {"create_user", "update_user", "delete_user", "get_user_credentials"}

JwtGuarded ==
    {"get_current_user", "logout", "change_password", "list_users", "get_user",
     "change_user_password", "list_folders", "get_dashboard_stats",
     "get_recent_activity"}

\* The verification outcome of the request in `last` (the clock does not
\* advance while an answer is unread).
LastVerify == verify_jwt_in_request(last.cred, FALSE)

LastIdentity == last.cred.tok.sub

HandlerRan == Len(last.steps) > 0 /\ last.steps[Len(last.steps)] = "handler"

----------------------------------------------------------------------------
(* C1: has_permission(identity, p) is decided by the role alone: admin is   *)
(* granted every p; user exactly list_files, upload_file, download_file,    *)
(* delete_own_file; readonly exactly list_files and download_file; any      *)
(* other role nothing.                                                      *)

C1_Granted(role, permission) ==
    \/ role = "admin"
    \/ role = "user" /\ permission \in {"list_files", "upload_file",
                                        "download_file", "delete_own_file"}
    \/ role = "readonly" /\ permission \in {"list_files", "download_file"}

C1_PermissionByRole ==
    last.ep = "has_permission" =>
        (last.status = 200 <=> C1_Granted(last.body.user.role, last.req.permission))

C1_Witness ==
    /\ last.ep = "has_permission"
    /\ last.body.user.role = "readonly"
    /\ last.req.permission = "upload_file"
    /\ last.status = 403

(* C2: on an endpoint guarded by permission_required or admin_required, a  *)
(* failed token verification ends the request before the permission or     *)
(* admin check and before the handler; the check runs only after a         *)
(* successful verification, the handler only after the check allowed it.   *)

C2_Check == IF last.ep \in AdminGuarded THEN "admin_check" ELSE "has_permission"

C2_CheckAllows ==
    IF last.ep \in AdminGuarded THEN LastIdentity.role = "admin"
    ELSE C1_Granted(LastIdentity.role, PermissionOf[last.ep])

C2_GuardShortCircuit ==
    last.ep \in PermissionGuarded \cup AdminGuarded =>
        /\ LastVerify # "ok" => last.steps = <<"verify_jwt_in_request">>
        /\ LastVerify = "ok" =>
              \/ /\ ~C2_CheckAllows
                 /\ last.steps = <<"verify_jwt_in_request", C2_Check>>
              \/ /\ C2_CheckAllows
                 /\ last.steps = <<"verify_jwt_in_request", C2_Check, "handler">>

C2_Witness ==
    /\ last.ep = "delete_object"
    /\ LastVerify = "ExpiredSignatureError"
    /\ last.steps = <<"verify_jwt_in_request">>

(* C3: on every protected endpoint a failed verification is answered by    *)
(* the kind of failure: missing token 401, expired token 401 with the      *)
(* Expired kind, malformed token 422; never 500 or 200.                    *)

C3_FailureAnswers ==
    (last.ep \in JwtGuarded \cup PermissionGuarded \cup AdminGuarded
        /\ LastVerify # "ok") =>
        /\ last.status \notin {200, 500}
        /\ LastVerify = "NoAuthorizationError" => last.status = 401
        /\ LastVerify = "ExpiredSignatureError" =>
              last.status = 401 /\ last.error = "Token Expired"
        /\ LastVerify = "DecodeError" => last.status = 422

(* C4: POST /api/auth/refresh answers 200 with a new access token exactly  *)
(* when the presented token is a valid, unexpired refresh token, and the   *)
(* new token carries the same username, role and email.                    *)

C4_RefreshIssues ==
    last.ep = "refresh" =>
        /\ last.status = 200 <=> verify_jwt_in_request(last.cred, TRUE) = "ok"
        /\ last.status = 200 =>
              /\ last.body.access_token.type = "access"
              /\ last.body.access_token.sub = last.cred.tok.sub

(* C5: a successful login followed by GET /api/auth/me with the issued     *)
(* access token, before its expiry, returns the username, role and email   *)
(* the login response reported, which are those of the account.            *)

C5_LoginThenMe ==
    /\ (last.ep = "login" /\ last.status = 200) =>
          /\ last.body.user = [username |-> last.req.username,
                               role |-> users[last.req.username].role,
                               email |-> users[last.req.username].email]
          /\ last.body.access_token.sub = last.body.user
          /\ login_user = last.body.user
    /\ (last.ep = "get_current_user" /\ last.cred.kind = "jwt"
            /\ last.cred.tok.type = "access" /\ last.cred.tok.exp > now) =>
          /\ last.status = 200
          /\ last.body.user = login_user

C5_Witness ==
    /\ last.ep = "get_current_user"
    /\ last.status = 200
    /\ last.body.user = [username |-> "bob", role |-> "user", email |-> None]
    /\ login_user = last.body.user


InCalls(call) == \E i \in 1..Len(last.calls) : last.calls[i] = call

(* C6: a non-admin identity never causes a delete, copy or move on a key   *)
(* outside its own prefix: DELETE /api/delete/<key> and POST /api/move by  *)
(* a requester whose role is not admin, on a key (or destination) that     *)
(* does not start with '<username>/', are answered 403 without a call to   *)
(* the object store.                                                       *)

C6_Own(key, username) == Len(key) >= 2 /\ key[1] = username

C6_OwnPrefixOnly ==
    (/\ last.ep \in {"delete_object", "move_object"}
     /\ LastVerify = "ok"
     /\ LastIdentity.role # "admin"
     /\ \/ ~C6_Own(last.req.key, LastIdentity.username)
        \/ last.ep = "move_object"
              /\ ~C6_Own(last.req.dest, LastIdentity.username)) =>
        last.status = 403 /\ last.calls = <<>>

C6_Witness ==
    /\ last.ep = "delete_object"
    /\ LastVerify = "ok"
    /\ LastIdentity.username = "bob"
    /\ last.req.key = <<"alice", "file.txt">>
    /\ last.status = 403
    /\ <<"alice", "file.txt">> \in store

(* C7: every user-management endpoint other than the password change       *)
(* answers 403 to a verified non-admin identity, without a call to the     *)
(* remote directory; the password change of another user's account is      *)
(* answered 403 to a non-admin.                                            *)

C7_AdminOnlyUserManagement ==
    /\ (/\ last.ep \in {"list_users", "get_user", "create_user", "update_user",
                        "delete_user", "get_user_credentials"}
        /\ LastVerify = "ok"
        /\ LastIdentity.role # "admin") =>
            last.status = 403 /\ last.calls = <<>>
    /\ (/\ last.ep = "change_user_password"
        /\ LastVerify = "ok"
        /\ LastIdentity.role # "admin"
        /\ last.req.username # LastIdentity.username) =>
            last.status = 403

(* C8: DELETE /api/delete-user/<username> by the identity of that username *)
(* is answered 400 whatever the role, and the remote delete is never       *)
(* called.                                                                 *)

C8_SelfDeleteAlways400 ==
    (/\ last.ep = "delete_user"
     /\ LastVerify = "ok"
     /\ LastIdentity.username = last.req.username) =>
        last.status = 400 /\ ~InCalls("delete_user")

(* C8, amended: the request is answered 400 when the requester's role is   *)
(* admin and 403 when it is not; in both cases the remote delete is never  *)
(* called.                                                                 *)

C8_SelfDeleteRejected ==
    (/\ last.ep = "delete_user"
     /\ LastVerify = "ok"
     /\ LastIdentity.username = last.req.username) =>
        /\ LastIdentity.role = "admin" => last.status = 400
        /\ LastIdentity.role # "admin" => last.status = 403
        /\ ~InCalls("delete_user")

C8_Witness ==
    /\ last.ep = "delete_user"
    /\ LastVerify = "ok"
    /\ LastIdentity.username = "admin"
    /\ last.req.username = "admin"
    /\ last.status = 400

(* C9: logout has no server-side effect: the step that answers a logout    *)
(* 200 changes no account, audit row, remote user or object and no         *)
(* token's verification outcome, and a token of a logged-out session is    *)
(* still accepted, until its expiry, by every endpoint that takes its      *)
(* type.                                                                   *)

C9_LogoutStep ==
    (last.ep = "none" /\ last'.ep = "logout" /\ last'.status = 200) =>
        /\ users' = users /\ audit' = audit /\ remote' = remote /\ store' = store
        /\ held' = held
        /\ \A t \in held, rf \in BOOLEAN :
              verify_jwt_in_request(Bearer(t), rf)'
                  = verify_jwt_in_request(Bearer(t), rf)

C9_StillAccepted ==
    (/\ last.cred.kind = "jwt"
     /\ last.cred.tok \in logged_out
     /\ last.cred.tok.exp > now
     /\ \/ last.ep = "refresh" /\ last.cred.tok.type = "refresh"
        \/ last.ep \in JwtGuarded \cup PermissionGuarded \cup AdminGuarded
              /\ last.cred.tok.type = "access") =>
        last.steps # <<"verify_jwt_in_request">>

C9_LogoutHasNoEffect == [][C9_LogoutStep]_vars /\ []C9_StillAccepted

C9_Witness ==
    /\ last.ep = "get_current_user"
    /\ last.cred.kind = "jwt"
    /\ last.cred.tok \in logged_out
    /\ last.status = 200
    /\ Len(audit) = 1
    /\ audit[1].action = "login"

(* C10: a password change a non-admin identity requests for its own        *)
(* account is reported successful only if the supplied current password    *)
(* matches the stored one; when it does not match, the answer is 400 and   *)
(* the stored password is unchanged.                                       *)

C10_OwnChange ==
    /\ last.ep = "none"
    /\ last'.ep \in {"change_password", "change_user_password"}
    /\ verify_jwt_in_request(last'.cred, FALSE) = "ok"
    /\ last'.cred.tok.sub.role # "admin"
    /\ last'.ep = "change_user_password" =>
          last'.req.username = last'.cred.tok.sub.username

C10_CurrentPasswordRequired ==
    [][C10_OwnChange =>
        LET account == users[last'.cred.tok.sub.username]
            matches == check_password(account, last'.req.password)
        IN  /\ last'.status = 200 => matches
            /\ ~matches => last'.status = 400 /\ users' = users]_vars


(* C11: in a password change the confirmation field is optional: the       *)
(* request is rejected by validation exactly when the current password is  *)
(* empty, the new password is shorter than 6, or a confirmation was        *)
(* supplied and differs from the new password; a request without           *)
(* confirmation is not rejected for a mismatch.                            *)

C11_Reached ==
    /\ last.ep = "change_user_password"
    /\ HandlerRan
    /\ last.status # 403

C11_ConfirmationOptional ==
    C11_Reached =>
        (last.error = "Validation error" <=>
            ~(/\ last.req.password # None /\ last.req.password # ""
              /\ last.req.new_password # None /\ Len(last.req.new_password) >= 6
              /\ \/ last.req.confirm = None
                 \/ last.req.confirm = last.req.new_password))


----------------------------------------------------------------------------
(* AuthService called directly, with the audit write of a call failing or  *)
(* not.                                                                    *)

\* A call of a service method: its arguments, the faults it met, the remote
\* calls it issued, the exception it raised and the value it returned.
Called(ep, args, faults, calls, raised, returned) ==
    [ep |-> ep, args |-> args, faults |-> faults, calls |-> calls,
     raised |-> raised, returned |-> returned]

\* AuthService.authenticate when db.session.add(audit_log) / commit() raises:
\* the except branch returns None.  update_last_login() has committed before.
authenticate_audit_failing(username, password) ==
    LET r == authenticate(username, password)
    IN  [user_data |-> [id |-> 0, username |-> None, role |-> None, email |-> None],
         ok |-> FALSE, users |-> r.users, audit |-> audit]

\* AuthService.change_password when the audit write raises: the new password
\* is committed before the audit row is added; the except branch rolls back
\* the pending row and returns False.
change_password_audit_failing(username, current_password, new_password) ==
    LET r == change_password(username, current_password, new_password)
    IN  IF r.ok THEN [ok |-> FALSE, users |-> r.users, audit |-> audit]
        ELSE r

AuditFaults == {"none", "audit_write"}

AuthenticateCall ==
    /\ last = Idle
    /\ Len(audit) < MaxAudit
    /\ \E username \in LoginNames, password \in Passwords, fault \in AuditFaults :
          LET r == IF fault = "none" THEN authenticate(username, password)
                   ELSE authenticate_audit_failing(username, password)
          IN  /\ users' = r.users
              /\ audit' = r.audit
              /\ last' = Called("AuthService.authenticate",
                                [username |-> username, password |-> password,
                                 new_password |-> None],
                                fault, <<>>, None, r.ok)
    /\ UNCHANGED <<now, held, login_user, logged_out, remote, store>>
    /\ UNCHANGED <<policies, workers>>

ChangePasswordCall ==
    /\ last = Idle
    /\ Len(audit) < MaxAudit
    /\ \E username \in LoginNames, current_password \in Passwords,
          new_password \in {"secret2"}, fault \in AuditFaults :
          LET r == IF fault = "none"
                   THEN change_password(PyStr(username), current_password,
                                        new_password)
                   ELSE change_password_audit_failing(PyStr(username),
                                                      current_password,
                                                      new_password)
          IN  /\ users' = r.users
              /\ audit' = r.audit
              /\ last' = Called("AuthService.change_password",
                                [username |-> username,
                                 password |-> current_password,
                                 new_password |-> new_password],
                                fault, <<>>, None, r.ok)
    /\ UNCHANGED <<now, held, login_user, logged_out, remote, store>>
    /\ UNCHANGED <<policies, workers>>

AuthServiceNext ==
    \/ ProvisionAccount
    \/ AuthenticateCall
    \/ ChangePasswordCall
    \/ Deliver

SpecAuthService == Init /\ [][AuthServiceNext]_vars

\* The step is a call of authenticate or change_password under fault.
AuthServiceStep(fault) ==
    /\ last = Idle
    /\ last'.ep \in {"AuthService.authenticate", "AuthService.change_password"}
    /\ last'.faults = fault

(* C12: every call of authenticate and every call of change_password       *)
(* appends exactly one audit entry, whether it succeeded or failed; the    *)
(* entry of a failed attempt carries the reason invalid_credentials, and a *)
(* null account reference when no account has the username.               *)

C12_OneAuditEntryPerCall ==
    [][AuthServiceStep("none") =>
        /\ Len(audit') = Len(audit) + 1
        /\ SubSeq(audit', 1, Len(audit)) = audit
        /\ ~last'.returned =>
              /\ audit'[Len(audit')].details.reason = "invalid_credentials"
              /\ ~first_by_username(users, last'.args.username).exists =>
                    audit'[Len(audit')].user_id = 0]_vars

(* C13: a failure to write the audit row never fails the primary           *)
(* operation: authenticate with valid credentials of an active account     *)
(* still returns the user, and change_password that has stored the new     *)
(* password still returns true.                                            *)

C13_AuditBestEffort ==
    [][AuthServiceStep("audit_write") =>
        LET account == first_by_username(users, last'.args.username)
            valid == /\ account.exists /\ account.is_active
                     /\ check_password(account, last'.args.password)
        IN  /\ (last'.ep = "AuthService.authenticate" /\ valid) => last'.returned
            /\ (last'.ep = "AuthService.change_password"
                  /\ users'[last'.args.username].password_hash
                        = hashpw(last'.args.new_password)
                  /\ users' # users) => last'.returned]_vars


----------------------------------------------------------------------------
(* AuthService.create_user called by concurrent workers.  Each call is two *)
(* steps: the query for an existing row, then the insert and its commit.   *)

\* An insert that the table accepts whatever rows it already holds.
create_user_commit_unconstrained(username, password, email, role) ==
    [created |-> TRUE,
     users |-> [users EXCEPT ![username] =
                   [exists |-> TRUE, id |-> NextId(users),
                    password_hash |-> hashpw(password), email |-> email,
                    role |-> role, is_active |-> TRUE, last_login |-> -1]]]

\* db.session.add(user); db.session.commit(): the unique indexes on username
\* and email make the commit raise; the except branch rolls back and the
\* call returns None.
create_user_commit(username, password, email, role) ==
    IF users[username].exists
        THEN [created |-> FALSE, users |-> users]
    ELSE IF email # None
            /\ \E u \in Usernames : users[u].exists /\ users[u].email = email
        THEN [created |-> FALSE, users |-> users]
    ELSE [created |-> TRUE,
          users |-> [users EXCEPT ![username] =
                        [exists |-> TRUE, id |-> NextId(users),
                         password_hash |-> hashpw(password), email |-> email,
                         role |-> role, is_active |-> TRUE, last_login |-> -1]]]

\* existing_user = User.query.filter_by(username=username).first()
QueryCreateUser(w) ==
    /\ workers[w].pc = "idle"
    /\ \E p \in Profiles :
          workers' = [workers EXCEPT ![w] =
              [pc |-> IF first_by_username(users, p.username).exists
                      THEN "done" ELSE "insert",
               username |-> p.username, email |-> p.email, role |-> p.role,
               returned |-> 0]]
    /\ UNCHANGED <<users, audit, now, held, login_user, logged_out, remote, store,
                   policies, last>>

CommitCreateUser(w) ==
    /\ workers[w].pc = "insert"
    /\ LET r == create_user_commit(workers[w].username, "secret1",
                                   workers[w].email, workers[w].role)
       IN  /\ users' = r.users
           /\ workers' = [workers EXCEPT ![w].pc = "done",
                              ![w].returned = IF r.created
                                              THEN r.users[workers[w].username].id
                                              ELSE 0]
    /\ UNCHANGED <<audit, now, held, login_user, logged_out, remote, store,
                   policies, last>>

\* The caller has its result; the worker takes the next call.
ReturnCreateUser(w) ==
    /\ workers[w].pc = "done"
    /\ workers' = [workers EXCEPT ![w] = NoCall]
    /\ UNCHANGED <<users, audit, now, held, login_user, logged_out, remote, store,
                   policies, last>>

CreateUserRaceNext ==
    \E w \in Workers :
        \/ QueryCreateUser(w)
        \/ CommitCreateUser(w)
        \/ ReturnCreateUser(w)

SpecCreateUserRace == Init /\ [][CreateUserRaceNext]_vars

(* C14: usernames are unique in the credential store: a create_user for a  *)
(* username that already has a row is rejected and adds no row, and after  *)
(* any interleaving of concurrent create_user calls for one username one   *)
(* account with that username exists and every other call was rejected.   *)

C14_Created(w) == workers[w].pc = "done" /\ workers[w].returned # 0

C14_OneRowPerUsername ==
    \A w \in Workers :
        /\ C14_Created(w) =>
              /\ users[workers[w].username].exists
              /\ users[workers[w].username].id = workers[w].returned
              /\ \A v \in Workers \ {w} :
                    workers[v].username = workers[w].username => ~C14_Created(v)
        /\ (workers[w].pc = "done" /\ ~C14_Created(w)) =>
              \/ users[workers[w].username].exists
              \/ workers[w].email # None

C14_ExistingRejected ==
    \A w \in Workers :
        (workers[w].pc # "done" /\ workers'[w].pc = "done"
            /\ users[workers'[w].username].exists) =>
            workers'[w].returned = 0 /\ users' = users

C14_UniqueUsernames == []C14_OneRowPerUsername /\ [][C14_ExistingRejected]_vars

C14_Witness ==
    \E w, v \in Workers :
        /\ w # v
        /\ workers[w].username = "bob" /\ workers[v].username = "bob"
        /\ C14_Created(w)
        /\ workers[v].pc = "insert"
        /\ users["bob"].exists


----------------------------------------------------------------------------
(* models/user.py: UserCreateRequest.validate over texts.  A text is the   *)
(* sequence of its characters.                                             *)

Letters == {"a", "b"}

Whitespace == {" ", "\n"}

\* The characters of the texts of the model.
NameAlphabet == Letters \cup Whitespace \cup {"!"}

TextsUpTo(alphabet, n) == UNION {[1..k -> alphabet] : k \in 0..n}

\* str.strip(): leading and trailing whitespace removed.
RECURSIVE lstrip(_)
lstrip(t) ==
    IF t # <<>> /\ Head(t) \in Whitespace THEN lstrip(Tail(t)) ELSE t

RECURSIVE rstrip(_)
rstrip(t) ==
    IF t # <<>> /\ t[Len(t)] \in Whitespace
        THEN rstrip(SubSeq(t, 1, Len(t) - 1))
        ELSE t

strip(t) == rstrip(lstrip(t))

\* The text a pattern ending in $ has to match up to: $ matches at the end
\* of the text and also just before a newline that ends the text.
BeforeDollar(t) ==
    {t} \cup (IF t # <<>> /\ t[Len(t)] = "\n"
              THEN {SubSeq(t, 1, Len(t) - 1)} ELSE {})

\* [a-zA-Z0-9_-]
NameChars == Letters \cup {"0", "1", "_", "-"}

\* re.match(r'^[a-zA-Z0-9_-]+$', t)
match_username(t) ==
    \E body \in BeforeDollar(t) :
        body # <<>> /\ \A i \in 1..Len(body) : body[i] \in NameChars

\* [^\s@]+
NoSpaceNoAt(t) ==
    t # <<>> /\ \A i \in 1..Len(t) : t[i] \notin Whitespace \cup {"@"}

\* re.match(r'^[^\s@]+@[^\s@]+\.[^\s@]+$', t)
match_email(t) ==
    \E body \in BeforeDollar(t) :
        \E i, j \in 1..Len(body) :
            /\ i < j
            /\ body[i] = "@" /\ body[j] = "."
            /\ NoSpaceNoAt(SubSeq(body, 1, i - 1))
            /\ NoSpaceNoAt(SubSeq(body, i + 1, j - 1))
            /\ NoSpaceNoAt(SubSeq(body, j + 1, Len(body)))

\* [role.value for role in UserRole]
UserRole == {"admin", "user", "readonly"}

\* A field the request does not carry.
Absent == [present |-> FALSE, text |-> <<>>]

Text(t) == [present |-> TRUE, text |-> t]

\* `if self.email` / `if self.homeDirectory`: None and '' are both false.
Truthy(field) == field.present /\ field.text # <<>>

\* UserCreateRequest.validate: the messages of the ValueError it raises, in
\* order; no message means it returns.
UserCreateRequest_errors(request) ==
    (IF request.username = <<>> \/ Len(strip(request.username)) < 3
        THEN <<"Username must be at least 3 characters long">> ELSE <<>>)
    \o (IF ~match_username(request.username)
        THEN <<"Username can only contain letters, numbers, underscores, and hyphens">>
        ELSE <<>>)
    \o (IF request.password = "" \/ Len(request.password) < 6
        THEN <<"Password must be at least 6 characters long">> ELSE <<>>)
    \o (IF Truthy(request.email) /\ ~match_email(request.email.text)
        THEN <<"Invalid email format">> ELSE <<>>)
    \o (IF request.role \notin UserRole
        THEN <<"Invalid role">> ELSE <<>>)
    \o (IF Truthy(request.homeDirectory) /\ Head(request.homeDirectory.text) # "/"
        THEN <<"Home directory must start with '/'">> ELSE <<>>)

MaxNameLen == 4

RequestUsernames == TextsUpTo(NameAlphabet, MaxNameLen)

RequestEmails ==
    {Absent, Text(<<>>), Text(<<"a", "@", "b", ".", "c">>),
     Text(<<"a", "@", "b">>), Text(<<"a", "@", ".", "c">>)}

RequestHomes == {Absent, Text(<<"/", "h">>), Text(<<"h">>)}

ValidateCreateRequest ==
    /\ last = Idle
    /\ \E username \in RequestUsernames, password \in {"short", "secret1"},
          email \in RequestEmails, role \in {"user", "guest"},
          homeDirectory \in RequestHomes :
          LET request == [username |-> username, password |-> password,
                          email |-> email, role |-> role,
                          homeDirectory |-> homeDirectory]
              errors == UserCreateRequest_errors(request)
          IN  last' = Called("UserCreateRequest.validate", request, "none", <<>>,
                             IF errors = <<>> THEN None ELSE "ValueError", errors)
    /\ UNCHANGED <<users, audit, now, held, login_user, logged_out, remote, store>>
    /\ UNCHANGED <<policies, workers>>

ValidationNext == ValidateCreateRequest \/ Deliver

SpecValidation == Init /\ [][ValidationNext]_vars

(* C15: user-creation validation accepts a request exactly when the        *)
(* username has at least 3 characters, all of them letters, digits, '_' or *)
(* '-', the password has at least 6 characters, the email (if present) has *)
(* the local@domain.tld shape, the role is admin, user or readonly, and    *)
(* the home directory (if present) starts with '/'; on rejection the error *)
(* has one message for every violated rule.                                *)

C15_NameOnly(t) == \A i \in 1..Len(t) : t[i] \in NameChars

C15_Violated(request) ==
    (IF Len(request.username) < 3 THEN {"Username must be at least 3 characters long"}
        ELSE {})
    \cup (IF request.username = <<>> \/ ~C15_NameOnly(request.username)
          THEN {"Username can only contain letters, numbers, underscores, and hyphens"}
          ELSE {})
    \cup (IF Len(request.password) < 6
          THEN {"Password must be at least 6 characters long"} ELSE {})
    \cup (IF Truthy(request.email) /\ ~match_email(request.email.text)
          THEN {"Invalid email format"} ELSE {})
    \cup (IF request.role \notin {"admin", "user", "readonly"}
          THEN {"Invalid role"} ELSE {})
    \cup (IF Truthy(request.homeDirectory) /\ Head(request.homeDirectory.text) # "/"
          THEN {"Home directory must start with '/'"} ELSE {})

C15_AcceptsExactlyValid ==
    last.ep = "UserCreateRequest.validate" =>
        /\ last.raised = None <=> C15_Violated(last.args) = {}
        /\ {last.returned[i] : i \in 1..Len(last.returned)} = C15_Violated(last.args)

----------------------------------------------------------------------------
(* services/user_service.py: create_user and update_user call by call *)

\* d[k] = v on a Python dict
dict_set(d, k, v) == [x \in DOMAIN d \cup {k} |-> IF x = k THEN v ELSE d[x]]

\* {k: v for k, v in d.items() if k != key}
dict_without(d, key) == [x \in DOMAIN d \ {key} |-> d[x]]

\* UserService._prepare_user_tags, for a request without email, names and
\* custom tags: the two default tags.
prepare_user_tags(user_request) ==
    << [Key |-> "CreatedBy", Value |-> "WebApp"],
       [Key |-> "Role", Value |-> user_request.role] >>

\* create_params of UserService.create_user before the tags are added
create_params_of(user_request) ==
    LET base == [ServerId |-> "TRANSFER_SERVER_ID",
                 UserName |-> user_request.username,
                 Role |-> "IAM_ROLE_ARN",
                 HomeDirectory |-> <<"/", S3_BUCKET_NAME, "/", user_request.username>>]
        policy == generate_user_policy(user_request.allowedFolders)
    IN  IF user_request.allowedFolders # <<>> /\ policy # NoPolicy
        THEN dict_set(base, "Policy", policy)
        ELSE base

\* What a call of the Transfer client can do: succeed, be rejected with a
\* ClientError whose text names TagResource, be rejected with another
\* ClientError, or fail with an exception that is not a ClientError
\* (botocore's BotoCoreError family: connection, timeout, parameter errors).
CallOutcomes == {"ok", "TagResource", "ClientError", "BotoCoreError"}

ImportOutcomes == {"ok", "ClientError", "BotoCoreError"}

\* transfer_client.create_user: an existing user name is a ClientError
\* (ResourceExistsException).
transfer_create_user(params, outcome) ==
    IF outcome = "ok" /\ params.UserName \in remote THEN "ClientError" ELSE outcome

\* A create_user that retries after every ClientError.
tag_rejection_any(e) == e \in {"TagResource", "ClientError"}

\* except ClientError as e: if 'TagResource' in str(e)
tag_rejection(e) == e = "TagResource"

\* The handler around import_ssh_public_key: except ClientError
import_caught(e) == e = "ClientError"

\* The remote directory after a successful create_user call with params.
created(params) ==
    [remote |-> remote \cup {params.UserName},
     policies |-> [policies EXCEPT ![params.UserName] =
                      IF "Policy" \in DOMAIN params THEN params.Policy ELSE NoPolicy]]

\* UserService.create_user, with the outcome of each Transfer call given:
\* [raised, returned, calls, remote, policies]
UserService_create_user_calls(user_request, first, second, import) ==
    LET tags == prepare_user_tags(user_request)
        create_params == IF tags # <<>>
                             THEN dict_set(create_params_of(user_request), "Tags", tags)
                             ELSE create_params_of(user_request)
        create_params_no_tags == dict_without(create_params, "Tags")
        call1 == [op |-> "create_user", params |-> create_params]
        call2 == [op |-> "create_user", params |-> create_params_no_tags]
        out1 == transfer_create_user(create_params, first)
        out2 == transfer_create_user(create_params_no_tags, second)
        retried == out1 # "ok" /\ out1 # "BotoCoreError" /\ tag_rejection(out1)
        create_calls == IF retried THEN <<call1, call2>> ELSE <<call1>>
        create_ok == out1 = "ok" \/ (retried /\ out2 = "ok")
        after == created(IF out1 = "ok" THEN create_params ELSE create_params_no_tags)
        import_call == [op |-> "import_ssh_public_key",
                        params |-> [ServerId |-> "TRANSFER_SERVER_ID",
                                    UserName |-> user_request.username,
                                    SshPublicKeyBody |-> user_request.sshPublicKey]]
        describe_call == [op |-> "describe_user",
                          params |-> [ServerId |-> "TRANSFER_SERVER_ID",
                                      UserName |-> user_request.username]]
    IN  IF ~create_ok
        THEN [raised |-> IF (retried /\ out2 = "BotoCoreError") \/ out1 = "BotoCoreError"
                             THEN "BotoCoreError"
                             ELSE "Failed to create user",
              returned |-> None, calls |-> create_calls,
              remote |-> remote, policies |-> policies]
        ELSE IF user_request.sshPublicKey = None
        THEN [raised |-> None, returned |-> user_request.username,
              calls |-> create_calls \o <<describe_call>>,
              remote |-> after.remote, policies |-> after.policies]
        ELSE IF import = "ok" \/ import_caught(import)
        THEN [raised |-> None, returned |-> user_request.username,
              calls |-> create_calls \o <<import_call, describe_call>>,
              remote |-> after.remote, policies |-> after.policies]
        ELSE [raised |-> import, returned |-> None,
              calls |-> create_calls \o <<import_call>>,
              remote |-> after.remote, policies |-> after.policies]

\* The folder lists of the requests.
FolderLists == {<<>>, <<"reports">>, <<"reports", "inbox">>}

CreateUserCall ==
    /\ last = Idle
    /\ \E username \in Targets, allowedFolders \in FolderLists,
          sshPublicKey \in {None, "ssh-rsa"},
          first \in CallOutcomes, second \in CallOutcomes, import \in ImportOutcomes :
          LET user_request == [username |-> username, password |-> "secret1",
                               role |-> "user", allowedFolders |-> allowedFolders,
                               sshPublicKey |-> sshPublicKey]
              r == UserService_create_user_calls(user_request, first, second, import)
          IN  /\ remote' = r.remote
              /\ policies' = r.policies
              /\ last' = Called("UserService.create_user", user_request,
                                [first |-> first, second |-> second, import |-> import],
                                r.calls, r.raised, r.returned)
    /\ UNCHANGED <<users, audit, now, held, login_user, logged_out, store, workers>>

UpdateUserCall ==
    /\ last = Idle
    /\ \E username \in Targets,
          allowedFolders \in {Omitted} \cup {Folders(l) : l \in FolderLists} :
          LET r == UserService_update_user(username, allowedFolders)
          IN  /\ policies' = r.policies
              /\ last' = Called("UserService.update_user",
                                [username |-> username, allowedFolders |-> allowedFolders],
                                "none", r.calls, r.raised,
                                IF r.raised = None THEN username ELSE None)
    /\ UNCHANGED <<users, audit, now, held, login_user, logged_out, remote, store,
                   workers>>

UserServiceNext == CreateUserCall \/ UpdateUserCall \/ Deliver

SpecUserService == Init /\ [][UserServiceNext]_vars

(* C16: update_user sends a policy update to the remote directory only when *)
(* the allowed-folder list of the request differs from the user's current  *)
(* list; when the request omits the list or carries the current list, no   *)
(* update_user call is issued and the remote policy stays as it was.       *)

C16_Update == last'.ep = "UserService.update_user" /\ last'.raised = None

C16_ListUnchanged ==
    \/ ~last'.args.allowedFolders.present
    \/ generate_user_policy(last'.args.allowedFolders.list)
           = policies[last'.args.username]

C16_Witness ==
    /\ last.ep = "UserService.update_user"
    /\ last.raised = None
    /\ last.args.allowedFolders = Folders(<<"reports", "inbox">>)
    /\ \E i \in 1..Len(last.calls) : last.calls[i] = "update_user"
    /\ policies[last.args.username] = generate_user_policy(<<"reports", "inbox">>)

C16_PolicyUpdateOnlyOnChange ==
    [][(C16_Update /\ C16_ListUnchanged) =>
          /\ \A i \in 1..Len(last'.calls) : last'.calls[i] # "update_user"
          /\ policies' = policies]_vars

(* C17: when the remote service rejects the creation because tagging is    *)
(* not permitted, create_user issues the create call once more with the    *)
(* same parameters minus the tags, and succeeds when that retry succeeds;  *)
(* create is called at most twice per create_user, and a rejection for any *)
(* other reason is not retried.                                            *)

C17_CreateCalls(c) == SelectSeq(c.calls, LAMBDA call : call.op = "create_user")

C17_RetryOnlyOnTagRejection ==
    last.ep = "UserService.create_user" =>
        LET creates == C17_CreateCalls(last)
        IN  /\ Len(creates) \in {1, 2}
            /\ Len(creates) = 2 <=> last.faults.first = "TagResource"
            /\ last.calls[1].op = "create_user"
            /\ "Tags" \in DOMAIN creates[1].params
            /\ Len(creates) = 2 =>
                  /\ last.calls[2].op = "create_user"
                  /\ DOMAIN creates[2].params = DOMAIN creates[1].params \ {"Tags"}
                  /\ \A k \in DOMAIN creates[2].params :
                        creates[2].params[k] = creates[1].params[k]

C17_RetrySucceeds ==
    (/\ last'.ep = "UserService.create_user"
     /\ last'.faults.first = "TagResource"
     /\ last'.faults.second = "ok"
     /\ last'.args.username \notin remote)
    => /\ last'.args.username \in remote'
       /\ (last'.args.sshPublicKey = None \/ last'.faults.import # "BotoCoreError")
             => last'.raised = None /\ last'.returned = last'.args.username

C18_ImportFailedAfterCreate ==
    /\ last'.ep = "UserService.create_user"
    /\ last'.args.username \notin remote
    /\ last'.args.username \in remote'
    /\ last'.args.sshPublicKey # None
    /\ last'.faults.import # "ok"

C18_ImportFailureNeverAborts ==
    [][C18_ImportFailedAfterCreate =>
          /\ last'.raised = None
          /\ last'.returned = last'.args.username]_vars

----------------------------------------------------------------------------
(* services/user_service.py: _generate_user_policy on folder lists *)

FolderNames == {"reports", "inbox", "shared", "tmp", "logs"}

MaxFolders == 3

\* The lists of at most MaxFolders folder names (a folder may repeat).
PolicyFolderLists == UNION {[1..n -> FolderNames] : n \in 0..MaxFolders}

GeneratePolicyCall ==
    /\ last = Idle
    /\ \E allowed_folders \in PolicyFolderLists :
          LET policy == generate_user_policy(allowed_folders)
          IN  last' = Called("UserService._generate_user_policy",
                             [allowed_folders |-> allowed_folders], "none", <<>>,
                             None, policy)
    /\ UNCHANGED <<users, audit, now, held, login_user, logged_out, remote, store>>
    /\ UNCHANGED <<policies, workers>>

PolicyDocumentNext == GeneratePolicyCall \/ Deliver

SpecPolicyDocument == Init /\ [][PolicyDocumentNext]_vars

(* C19: for every non-empty folder list the generated policy has, for each *)
(* folder f in list order, exactly two Allow statements: one granting      *)
(* object get/put/delete on bucket/f/* and one granting list-bucket on the *)
(* bucket under the condition prefix f/*; it has twice as many statements  *)
(* as the list has folders and names no folder outside the list.           *)

C19_Elements(seq) == {seq[i] : i \in 1..Len(seq)}

C19_ObjectStatement(st, f) ==
    /\ DOMAIN st = {"Effect", "Action", "Resource"}
    /\ st.Effect = "Allow"
    /\ C19_Elements(st.Action) = {"s3:GetObject", "s3:PutObject", "s3:DeleteObject"}
    /\ st.Resource = <<"arn:aws:s3:::", "atari-files-transfer", "/", f, "/*">>

C19_ListStatement(st, f) ==
    /\ DOMAIN st = {"Effect", "Action", "Resource", "Condition"}
    /\ st.Effect = "Allow"
    /\ C19_Elements(st.Action) = {"s3:ListBucket"}
    /\ st.Resource = <<"arn:aws:s3:::", "atari-files-transfer">>
    /\ st.Condition = [StringLike |-> [s3_prefix |-> <<f, "/*">>]]

C19_Witness ==
    /\ last.ep = "UserService._generate_user_policy"
    /\ last.args.allowed_folders = <<"reports", "inbox", "reports">>
    /\ Len(last.returned.Statement) = 6

C19_TwoStatementsPerFolder ==
    (last.ep = "UserService._generate_user_policy" /\ last.args.allowed_folders # <<>>)
    => LET folders == last.args.allowed_folders
           statements == last.returned.Statement
       IN  /\ Len(statements) = 2 * Len(folders)
           /\ \A i \in 1..Len(folders) :
                 /\ C19_ObjectStatement(statements[2 * i - 1], folders[i])
                 /\ C19_ListStatement(statements[2 * i], folders[i])

----------------------------------------------------------------------------
(* controllers/s3_controller.py list_files with its query parameters,      *)
(* services/s3_service.py list_objects, models/s3.py S3ListRequest         *)

\* The characters of the maxKeys query texts of the model.
QueryAlphabet == {"0", "1", "-", "x"}

MaxQueryLen == 4

\* request.args.get('maxKeys', ...): Absent when the query has no maxKeys.
QueryTexts == {Absent} \cup {Text(t) : t \in TextsUpTo(QueryAlphabet, MaxQueryLen)}

digit_value(c) == IF c = "1" THEN 1 ELSE 0

RECURSIVE digits_value(_, _)

\* the decimal value of a text of digits, most significant digit first
digits_value(t, acc) ==
    IF t = <<>> THEN acc
    ELSE digits_value(Tail(t), 10 * acc + digit_value(Head(t)))

all_digits(t) == t # <<>> /\ \A i \in 1..Len(t) : t[i] \in {"0", "1"}

\* int(text): an optional sign and decimal digits, ValueError otherwise.
python_int(t) ==
    IF all_digits(t) THEN [raised |-> None, value |-> digits_value(t, 0)]
    ELSE IF t # <<>> /\ Head(t) = "-" /\ all_digits(Tail(t))
        THEN [raised |-> None, value |-> 0 - digits_value(Tail(t), 0)]
    ELSE [raised |-> "ValueError", value |-> 0]

\* A limit that is handed on as it is.
python_min_left(a, b) == a

\* min(a, b)
python_min(a, b) == IF b < a THEN b ELSE a

\* S3ListRequest.validate
S3ListRequest_validate(list_request) ==
    ~(list_request.maxKeys <= 0 \/ list_request.maxKeys > 1000)

\* S3Service.list_objects: [raised, calls]
S3Service_list_objects(list_request) ==
    IF ~S3ListRequest_validate(list_request)
        THEN [raised |-> "ValueError", calls |-> <<>>]
        ELSE [raised |-> None,
              calls |-> << [op |-> "list_objects_v2",
                            params |-> [Bucket |-> S3_BUCKET_NAME,
                                        MaxKeys |-> list_request.maxKeys,
                                        Delimiter |-> list_request.delimiter]] >>]

\* GET /api/files?maxKeys=...
list_files_query(cred, maxKeys) ==
    LET guard == permission_required("list_files", cred)
        req == dict_set(NoReq, "maxKeys", maxKeys)
        parsed == IF maxKeys = Absent THEN [raised |-> None, value |-> 1000]
                  ELSE python_int(maxKeys.text)
        max_keys == python_min(parsed.value, 1000)
        r == S3Service_list_objects([maxKeys |-> max_keys, delimiter |-> "/"])
    IN  IF ~guard.pass THEN Refused("list_files", cred, req, guard)
        ELSE IF parsed.raised # None \/ r.raised # None
        THEN Answer("list_files", cred, req, Handled(guard), 400,
                    "Validation error", <<>>, NoBody)
        ELSE Answer("list_files", cred, req, Handled(guard), 200, None,
                    r.calls, NoBody)

ListFiles ==
    /\ last = Idle
    /\ \E cred \in Credentials, maxKeys \in QueryTexts :
          last' = list_files_query(cred, maxKeys)
    /\ UNCHANGED <<users, audit, now, held, login_user, logged_out, remote, store>>
    /\ UNCHANGED <<policies, workers>>

\* S3Service.list_objects called with a request of any limit.
ListObjectsCall ==
    /\ last = Idle
    /\ \E maxKeys \in {-1, 0, 1, 1000, 1001} :
          LET list_request == [maxKeys |-> maxKeys, delimiter |-> "/"]
              r == S3Service_list_objects(list_request)
          IN  last' = Called("S3Service.list_objects", list_request, "none",
                             r.calls, r.raised, None)
    /\ UNCHANGED <<users, audit, now, held, login_user, logged_out, remote, store>>
    /\ UNCHANGED <<policies, workers>>

ListFilesNext == Login \/ ListFiles \/ ListObjectsCall \/ Deliver

SpecListFiles == Init /\ [][ListFilesNext]_vars

(* C20: GET /api/files with maxKeys=n is accepted exactly when              *)
(* 1 <= n <= 1000: with maxKeys=0 or maxKeys=1001 validation fails (400)   *)
(* and no listing call reaches the object store; with maxKeys=1000         *)
(* validation passes.                                                      *)

C20_Handled ==
    /\ last.ep = "list_files"
    /\ "maxKeys" \in DOMAIN last.req
    /\ last.steps # <<>>
    /\ last.steps[Len(last.steps)] = "handler"

C20_Number(n) == C20_Handled /\ last.req.maxKeys # Absent
                    /\ python_int(last.req.maxKeys.text) = [raised |-> None, value |-> n]

C20_AcceptedExactlyInRange ==
    /\ (C20_Number(0) \/ C20_Number(1001)) => last.status = 400 /\ last.calls = <<>>
    /\ C20_Number(1000) => last.status = 200

(* C20, as the code has it: the endpoint clamps maxKeys to 1000 before the *)
(* request is validated, so a numeric maxKeys is accepted exactly when it  *)
(* is at least 1, and the listing call carries min(maxKeys, 1000); 0, a    *)
(* negative number and a text that is no number are answered 400 with no   *)
(* listing call.  S3Service.list_objects itself rejects a limit outside    *)
(* 1..1000 with a validation error and no listing call.                    *)

C20_EndpointClamps ==
    (C20_Handled /\ last.req.maxKeys # Absent) =>
        LET parsed == python_int(last.req.maxKeys.text)
            accepted == parsed.raised = None /\ parsed.value >= 1
        IN  /\ accepted => /\ last.status = 200
                           /\ Len(last.calls) = 1
                           /\ last.calls[1].op = "list_objects_v2"
                           /\ last.calls[1].params.MaxKeys =
                                  (IF parsed.value > 1000 THEN 1000 ELSE parsed.value)
            /\ ~accepted => last.status = 400 /\ last.calls = <<>>

C20_ServiceValidates ==
    last.ep = "S3Service.list_objects" =>
        /\ last.raised = None <=> (1 <= last.args.maxKeys /\ last.args.maxKeys <= 1000)
        /\ last.raised # None => last.raised = "ValueError" /\ last.calls = <<>>

C20_Witness ==
    /\ C20_Number(1001)
    /\ last.status = 200
    /\ last.calls[1].params.MaxKeys = 1000

C20_ClampedThenValidated == C20_EndpointClamps /\ C20_ServiceValidates

----------------------------------------------------------------------------
(* services/s3_service.py: list_folders and _get_folder_stats over the     *)
(* pages list_objects_v2 returns                                           *)

\* The keys of the listed buckets, in the order the store lists them (by
\* key): a marker "a/", objects under a/, a/d/, b/ and c/, and a top-level
\* object.
ListingKeys ==
    << <<"a", "">>, <<"a", "d", "z">>, <<"a", "x">>, <<"a", "y">>, <<"b", "x">>,
       <<"c", "x">>, <<"r">> >>

\* What the store holds of one key: nothing, or a size and a timestamp.
ObjectStates == [present : {FALSE}, Size : {0}, LastModified : {0}]
                    \cup [present : {TRUE}, Size : {1, 2}, LastModified : {1, 2}]

\* A bucket: what it holds of every key.
Buckets == [1..Len(ListingKeys) -> ObjectStates]

\* The objects of a bucket in listing order, as list_objects_v2 reports them.
bucket_objects(bucket) ==
    LET present == SelectSeq([i \in 1..Len(ListingKeys) |-> i],
                             LAMBDA i : bucket[i].present)
    IN  [j \in 1..Len(present) |->
            [Key |-> ListingKeys[present[j]], Size |-> bucket[present[j]].Size,
             LastModified |-> bucket[present[j]].LastModified]]

\* The number of entries of one list_objects_v2 response when the request
\* names no MaxKeys; it stands for the store's page of 1000.
PageLimit == 2

\* last_modified = None
NeverModified == 0

\* key.startswith(prefix) for a prefix that is empty (<<>>) or names a
\* folder ("f/" is <<f, "">>).
under_prefix(key, prefix) ==
    \/ prefix = <<>>
    \/ /\ Len(key) >= Len(prefix)
       /\ \A i \in 1..(Len(prefix) - 1) : key[i] = prefix[i]

RECURSIVE listing_entries(_, _, _)

\* The entries of a listing in order: every object under the prefix, or,
\* with Delimiter='/', one common prefix for all the keys that have a '/'
\* after the prefix and share the text up to it.
listing_entries(objects, prefix, delimiter) ==
    IF objects = <<>> THEN <<>>
    ELSE LET obj == Head(objects)
             rest == listing_entries(Tail(objects), prefix, delimiter)
             depth == IF prefix = <<>> THEN 0 ELSE Len(prefix) - 1
             rolled == [Prefix |-> Append(SubSeq(obj.Key, 1, depth + 1), "")]
         IN  IF ~under_prefix(obj.Key, prefix) THEN rest
             ELSE IF delimiter = "/" /\ Len(obj.Key) >= depth + 2
                 THEN IF rest # <<>> /\ Head(rest) = rolled THEN rest
                      ELSE <<rolled>> \o rest
             ELSE <<obj>> \o rest

\* s3_client.list_objects_v2: the page of at most max_keys entries that
\* follows the continuation token (the number of entries already returned).
list_objects_v2(bucket, prefix, delimiter, max_keys, token) ==
    LET entries == listing_entries(bucket_objects(bucket), prefix, delimiter)
        upto == IF token + max_keys < Len(entries) THEN token + max_keys
                ELSE Len(entries)
        page == SubSeq(entries, token + 1, upto)
    IN  [Contents |-> SelectSeq(page, LAMBDA e : "Key" \in DOMAIN e),
         CommonPrefixes |-> SelectSeq(page, LAMBDA e : "Prefix" \in DOMAIN e),
         IsTruncated |-> upto < Len(entries),
         NextContinuationToken |-> upto]

RECURSIVE paginate(_, _, _)

\* paginator.paginate(Bucket, Prefix): the pages, following the tokens
paginate(bucket, prefix, token) ==
    LET page == list_objects_v2(bucket, prefix, "", PageLimit, token)
    IN  IF page.IsTruncated
        THEN <<page>> \o paginate(bucket, prefix, page.NextContinuationToken)
        ELSE <<page>>

\* key.endswith('/')
endswith_slash(key) == key[Len(key)] = ""

RECURSIVE stats_of_objects(_, _)

\* The loop body of _get_folder_stats over the objects of a page
stats_of_objects(objects, stats) ==
    IF objects = <<>> THEN stats
    ELSE LET obj == Head(objects)
         IN  stats_of_objects(Tail(objects),
                 IF endswith_slash(obj.Key) THEN stats
                 ELSE [total_size |-> stats.total_size + obj.Size,
                       object_count |-> stats.object_count + 1,
                       last_modified |->
                           IF obj.LastModified # NeverModified
                              /\ (stats.last_modified = NeverModified
                                  \/ obj.LastModified > stats.last_modified)
                           THEN obj.LastModified ELSE stats.last_modified])

RECURSIVE stats_of_pages(_, _)

stats_of_pages(pages, stats) ==
    IF pages = <<>> THEN stats
    ELSE stats_of_pages(Tail(pages), stats_of_objects(Head(pages).Contents, stats))

\* S3Service._get_folder_stats
get_folder_stats(bucket, folder_prefix) ==
    stats_of_pages(paginate(bucket, <<folder_prefix, "">>, 0),
                   [total_size |-> 0, object_count |-> 0,
                    last_modified |-> NeverModified])

\* S3Service.list_folders: one list_objects_v2 call with Delimiter='/', then
\* the statistics of every common prefix of the response.
S3Service_list_folders(bucket) ==
    LET response == list_objects_v2(bucket, <<>>, "/", PageLimit, 0)
    IN  [i \in 1..Len(response.CommonPrefixes) |->
            LET prefix == response.CommonPrefixes[i]
                folder_name == prefix.Prefix[1]
                folder_stats == get_folder_stats(bucket, folder_name)
            IN  [name |-> folder_name, prefix |-> prefix.Prefix,
                 totalSize |-> folder_stats.total_size,
                 objectCount |-> folder_stats.object_count,
                 lastModified |-> folder_stats.last_modified]]

ListFoldersCall ==
    /\ last = Idle
    /\ \E bucket \in Buckets :
          last' = Called("S3Service.list_folders", [bucket |-> bucket], "none",
                         <<>>, None, S3Service_list_folders(bucket))
    /\ UNCHANGED <<users, audit, now, held, login_user, logged_out, remote, store>>
    /\ UNCHANGED <<policies, workers>>

ListFoldersNext == ListFoldersCall \/ Deliver

SpecListFolders == Init /\ [][ListFoldersNext]_vars

(* C21: list_folders returns one entry per top-level common prefix of the  *)
(* bucket; an entry's objectCount is the number of objects under the       *)
(* prefix whose key does not end in '/', its totalSize the sum of their    *)
(* sizes, its lastModified the maximum of their timestamps (none when      *)
(* there is no such object), over all pages of the prefix's listing.       *)

C21_Objects(bucket, folder) ==
    {i \in 1..Len(ListingKeys) :
        /\ bucket[i].present
        /\ Len(ListingKeys[i]) >= 2
        /\ ListingKeys[i][1] = folder
        /\ ListingKeys[i][Len(ListingKeys[i])] # ""}

RECURSIVE C21_Sum(_, _)

C21_Sum(bucket, indices) ==
    IF indices = {} THEN 0
    ELSE LET i == CHOOSE i \in indices : TRUE
         IN  bucket[i].Size + C21_Sum(bucket, indices \ {i})

C21_Latest(bucket, indices) ==
    IF indices = {} THEN 0
    ELSE CHOOSE t \in {bucket[i].LastModified : i \in indices} :
            \A i \in indices : bucket[i].LastModified <= t

C21_TopLevelPrefixes(bucket) ==
    {ListingKeys[i][1] : i \in {j \in 1..Len(ListingKeys) :
                                    bucket[j].present /\ Len(ListingKeys[j]) >= 2}}

C21_StatsRight(bucket, folders) ==
    \A i \in 1..Len(folders) :
        LET objects == C21_Objects(bucket, folders[i].name)
        IN  /\ folders[i].objectCount = Cardinality(objects)
            /\ folders[i].totalSize = C21_Sum(bucket, objects)
            /\ folders[i].lastModified = C21_Latest(bucket, objects)

C21_Reached ==
    /\ last.ep = "S3Service.list_folders"
    /\ Len(last.returned) = 2
    /\ last.returned[1].objectCount = 2

C21_FolderPerPrefixWithStats ==
    last.ep = "S3Service.list_folders" =>
        LET bucket == last.args.bucket
            folders == last.returned
        IN  /\ {folders[i].name : i \in 1..Len(folders)} = C21_TopLevelPrefixes(bucket)
            /\ Len(folders) = Cardinality(C21_TopLevelPrefixes(bucket))
            /\ C21_StatsRight(bucket, folders)

C21_StatsOfListedFolders ==
    last.ep = "S3Service.list_folders" =>
        C21_StatsRight(last.args.bucket, last.returned)

----------------------------------------------------------------------------
(* models/s3.py S3UploadRequest, services/s3_service.py generate_upload_url *)

\* Config.S3_UPLOAD_MAX_SIZE: 100 * 1024 * 1024
S3_UPLOAD_MAX_SIZE == 104857600

\* A test that looks for the first character of sub only.
has_first_char_of(t, sub) == \E i \in 1..Len(t) : t[i] = sub[1]

\* sub in t
has_substring(t, sub) ==
    \E i \in 1..(Len(t) - Len(sub) + 1) : SubSeq(t, i, i + Len(sub) - 1) = sub

RECURSIVE lstrip_chars(_, _)

lstrip_chars(t, chars) ==
    IF t # <<>> /\ Head(t) \in chars THEN lstrip_chars(Tail(t), chars) ELSE t

RECURSIVE rstrip_chars(_, _)

rstrip_chars(t, chars) ==
    IF t # <<>> /\ t[Len(t)] \in chars
        THEN rstrip_chars(SubSeq(t, 1, Len(t) - 1), chars)
        ELSE t

\* str.strip(chars)
strip_chars(t, chars) == rstrip_chars(lstrip_chars(t, chars), chars)

\* S3UploadRequest.validate(max_size): the messages of the ValueError it
\* raises, in order; no message means it returns.
S3UploadRequest_errors(upload_request, max_size) ==
    (IF upload_request.fileName = <<>> \/ strip(upload_request.fileName) = <<>>
        THEN <<"File name is required">> ELSE <<>>)
    \o (IF upload_request.fileSize <= 0
        THEN <<"File size must be greater than 0">> ELSE <<>>)
    \o (IF upload_request.fileSize > max_size
        THEN <<"File size exceeds maximum allowed size">> ELSE <<>>)
    \o (IF upload_request.contentType = ""
        THEN <<"Content type is required">> ELSE <<>>)
    \o (IF has_substring(upload_request.fileName, <<".", ".">>)
           \/ has_substring(upload_request.fileName, <<"/">>)
        THEN <<"Invalid file name">> ELSE <<>>)

\* S3UploadRequest.s3_key
s3_key(upload_request) ==
    IF Truthy(upload_request.folder)
        THEN strip_chars(upload_request.folder.text, {"/"}) \o <<"/">>
                 \o upload_request.fileName
        ELSE upload_request.fileName

\* S3Service.generate_upload_url: [raised, errors, calls, returned]
S3Service_generate_upload_url(upload_request) ==
    LET errors == S3UploadRequest_errors(upload_request, S3_UPLOAD_MAX_SIZE)
    IN  IF errors # <<>>
        THEN [raised |-> "ValueError", errors |-> errors, calls |-> <<>>]
        ELSE [raised |-> None, errors |-> <<>>,
              calls |-> << [op |-> "generate_presigned_post",
                            params |-> [Bucket |-> S3_BUCKET_NAME,
                                        Key |-> s3_key(upload_request),
                                        ContentType |-> upload_request.contentType,
                                        ContentLengthRange |-> <<1, S3_UPLOAD_MAX_SIZE>>,
                                        ExpiresIn |-> 3600]] >>]

FileNameAlphabet == {"f", ".", "/", " "}

MaxFileNameLen == 3

UploadFileNames == TextsUpTo(FileNameAlphabet, MaxFileNameLen)

UploadFolders == {Absent} \cup {Text(t) : t \in TextsUpTo({"d", "/"}, MaxFileNameLen)}

UploadSizes == {-1, 0, 1, S3_UPLOAD_MAX_SIZE, S3_UPLOAD_MAX_SIZE + 1}

GenerateUploadUrlCall ==
    /\ last = Idle
    /\ \E fileName \in UploadFileNames, fileSize \in UploadSizes,
          contentType \in {"", "text/plain"}, folder \in UploadFolders :
          LET upload_request == [fileName |-> fileName, fileSize |-> fileSize,
                                 contentType |-> contentType, folder |-> folder]
              r == S3Service_generate_upload_url(upload_request)
          IN  last' = Called("S3Service.generate_upload_url", upload_request, "none",
                             r.calls, r.raised, r.errors)
    /\ UNCHANGED <<users, audit, now, held, login_user, logged_out, remote, store>>
    /\ UNCHANGED <<policies, workers>>

UploadNext == GenerateUploadUrlCall \/ Deliver

SpecUpload == Init /\ [][UploadNext]_vars

(* C22: generate_upload_url returns a presigned post exactly when the file *)
(* name is non-empty and contains neither '/' nor '..', the size is        *)
(* positive and at most the configured maximum, and the content type is    *)
(* non-empty; otherwise validation fails and the object store is not       *)
(* called.  The key is '<folder>/<fileName>' with a folder, else the file  *)
(* name.                                                                   *)

C22_HasDotDot(t) == \E i \in 1..(Len(t) - 1) : t[i] = "." /\ t[i + 1] = "."

C22_HasSlash(t) == \E i \in 1..Len(t) : t[i] = "/"

C22_SizeAndTypeFit(request) ==
    /\ 0 < request.fileSize
    /\ request.fileSize <= 104857600
    /\ request.contentType # ""

C22_NameFits(request) ==
    /\ request.fileName # <<>>
    /\ ~C22_HasSlash(request.fileName)
    /\ ~C22_HasDotDot(request.fileName)

C22_KeyOf(c) == c.calls[1].params.Key

C22_PresignedExactlyWhenValid ==
    last.ep = "S3Service.generate_upload_url" =>
        /\ last.raised = None <=> (C22_NameFits(last.args) /\ C22_SizeAndTypeFit(last.args))
        /\ last.raised # None => last.calls = <<>>
        /\ last.raised = None =>
              C22_KeyOf(last) =
                  IF last.args.folder.present /\ last.args.folder.text # <<>>
                  THEN last.args.folder.text \o <<"/">> \o last.args.fileName
                  ELSE last.args.fileName

(* C22, as the code has it: the file name must moreover not be blank       *)
(* (whitespace only), and the key is built from the folder with its        *)
(* leading and trailing '/' removed.                                       *)

C22_Blank(t) == \A i \in 1..Len(t) : t[i] \in {" ", "\n"}

\* folder without the '/' at its two ends
C22_Trimmed(folder) ==
    LET inner == {i \in 1..Len(folder) : folder[i] # "/"}
    IN  IF inner = {} THEN <<>>
        ELSE SubSeq(folder, CHOOSE i \in inner : \A j \in inner : i <= j,
                            CHOOSE i \in inner : \A j \in inner : j <= i)

C22_Witness ==
    /\ last.ep = "S3Service.generate_upload_url"
    /\ last.raised = None
    /\ last.args.fileName = <<"f", ".", "f">>
    /\ last.args.folder = Text(<<"/", "d", "/">>)
    /\ C22_KeyOf(last) = <<"d", "/", "f", ".", "f">>

C22_PresignedWhenValidAndNotBlank ==
    last.ep = "S3Service.generate_upload_url" =>
        /\ last.raised = None <=> (/\ C22_NameFits(last.args)
                                   /\ ~C22_Blank(last.args.fileName)
                                   /\ C22_SizeAndTypeFit(last.args))
        /\ last.raised # None => last.calls = <<>>
        /\ last.raised = None =>
              /\ Len(last.calls) = 1
              /\ last.calls[1].op = "generate_presigned_post"
              /\ C22_KeyOf(last) =
                    IF last.args.folder.present /\ last.args.folder.text # <<>>
                    THEN C22_Trimmed(last.args.folder.text) \o <<"/">>
                             \o last.args.fileName
                    ELSE last.args.fileName

----------------------------------------------------------------------------
(* services/s3_service.py: move_object, copy_object and delete_object with *)
(* the outcome of each call of the object store given                      *)

\* What a call of the S3 client can do: succeed or raise a ClientError.
StoreOutcomes == {"ok", "ClientError"}

\* S3Service.copy_object.  A ClientError is re-raised as an Exception; the
\* store decides what a copy of a key onto itself does, as for any copy.
S3Service_copy_object(bucket, source_key, destination_key, outcome) ==
    IF outcome # "ok"
        THEN [raised |-> "Failed to copy object", store |-> bucket,
              calls |-> <<"copy_object">>]
        ELSE LET c == S3_copy_object(bucket, source_key, destination_key)
             IN  [raised |-> IF c.raised = None THEN None ELSE "Failed to copy object",
                  store |-> c.store, calls |-> c.calls]

\* S3Service.delete_object
S3Service_delete_object(bucket, object_key, outcome) ==
    IF outcome # "ok"
        THEN [raised |-> "Failed to delete object", store |-> bucket,
              calls |-> <<"delete_object">>]
        ELSE S3_delete_object(bucket, object_key)

\* A move that removes the copy again when the delete of the source fails.
S3Service_move_object_undoing(bucket, source_key, destination_key, copied, deleted) ==
    LET c == S3Service_copy_object(bucket, source_key, destination_key, copied)
        d == S3Service_delete_object(c.store, source_key, deleted)
    IN  IF c.raised # None THEN c
        ELSE IF d.raised # None
        THEN [raised |-> d.raised, store |-> d.store \ {destination_key},
              calls |-> c.calls \o d.calls \o <<"delete_object">>]
        ELSE [raised |-> None, store |-> d.store, calls |-> c.calls \o d.calls]

\* S3Service.move_object: copy_object, then delete_object of the source; an
\* exception of either is logged and re-raised.
S3Service_move_object(bucket, source_key, destination_key, copied, deleted) ==
    LET c == S3Service_copy_object(bucket, source_key, destination_key, copied)
        d == S3Service_delete_object(c.store, source_key, deleted)
    IN  IF c.raised # None THEN c
        ELSE [raised |-> d.raised, store |-> d.store, calls |-> c.calls \o d.calls]

\* The keys of the move calls: the two stored objects and a free key.
MoveKeys == Keys \cup {<<"alice", "moved.txt">>}

MoveObjectCall ==
    /\ last = Idle
    /\ \E source_key \in MoveKeys, destination_key \in MoveKeys,
          copied \in StoreOutcomes, deleted \in StoreOutcomes :
          LET r == S3Service_move_object(store, source_key, destination_key,
                                         copied, deleted)
          IN  /\ store' = r.store
              /\ last' = Called("S3Service.move_object",
                                [source_key |-> source_key,
                                 destination_key |-> destination_key],
                                [copy |-> copied, delete |-> deleted],
                                r.calls, r.raised, r.raised = None)
    /\ UNCHANGED <<users, audit, now, held, login_user, logged_out, remote>>
    /\ UNCHANGED <<policies, workers>>

MoveNext == MoveObjectCall \/ Deliver

SpecMove == Init /\ [][MoveNext]_vars

(* C23: move_object is copy followed by delete and is not atomic: when the *)
(* copy succeeds and the delete of the source then fails, move_object      *)
(* reports failure, the object is at the source key and at the destination *)
(* key afterwards, and nothing undoes the copy.                            *)

C23_Move == last'.ep = "S3Service.move_object" /\ last'.args.source_key \in store

C23_CopyThenDelete ==
    C23_Move =>
        /\ last'.calls[1] = "copy_object"
        /\ (last'.faults.copy = "ok") => last'.calls = <<"copy_object", "delete_object">>
        /\ (last'.faults.copy = "ok" /\ last'.faults.delete = "ok")
              => last'.raised = None /\ last'.returned = TRUE

C23_DeleteFailureLeavesBoth ==
    (C23_Move /\ last'.faults.copy = "ok" /\ last'.faults.delete # "ok") =>
        /\ last'.raised # None
        /\ last'.returned = FALSE
        /\ last'.args.source_key \in store'
        /\ last'.args.destination_key \in store'
        /\ store' = store \cup {last'.args.destination_key}

C23_Witness ==
    /\ last.ep = "S3Service.move_object"
    /\ last.args = [source_key |-> <<"alice", "file.txt">>,
                    destination_key |-> <<"alice", "moved.txt">>]
    /\ last.faults = [copy |-> "ok", delete |-> "ClientError"]
    /\ last.raised # None
    /\ last.calls = <<"copy_object", "delete_object">>
    /\ {<<"alice", "file.txt">>, <<"alice", "moved.txt">>} \subseteq store

C23_MoveNotAtomic == [][C23_CopyThenDelete /\ C23_DeleteFailureLeavesBoth]_vars

(* C29: move_object never loses the object: whatever the outcome, an       *)
(* object that was at the source key is afterwards at the source key or at *)
(* the destination key, and the delete of the source is issued only after  *)
(* the copy returned successfully; also when source and destination are   *)
(* the same key.                                                           *)

C29_DeleteOnlyAfterCopy ==
    C23_Move =>
        ((\E i \in 1..Len(last'.calls) : last'.calls[i] = "delete_object")
            => last'.faults.copy = "ok" /\ last'.calls[1] = "copy_object")

C29_ObjectKept ==
    C23_Move =>
        \/ last'.args.source_key \in store'
        \/ last'.args.destination_key \in store'

C29_NeverLosesObject == [][C29_DeleteOnlyAfterCopy /\ C29_ObjectKept]_vars

----------------------------------------------------------------------------
(* models/s3.py S3CreateFolderRequest, services/s3_service.py create_folder *)

\* str.isalnum(): at least one character, all of them letters or digits
isalnum(t) == t # <<>> /\ \A i \in 1..Len(t) : t[i] \in Letters \cup {"0", "1"}

\* str.replace(c, '')
replace_char(t, c) == SelectSeq(t, LAMBDA x : x # c)

\* S3CreateFolderRequest.validate: the messages of the ValueError it raises,
\* in order; no message means it returns.
S3CreateFolderRequest_errors(folder_request) ==
    (IF folder_request.folderName = <<>> \/ strip(folder_request.folderName) = <<>>
        THEN <<"Folder name is required">> ELSE <<>>)
    \o (IF ~isalnum(replace_char(replace_char(folder_request.folderName, "-"), "_"))
        THEN <<"Folder name can only contain letters, numbers, hyphens, and underscores">>
        ELSE <<>>)
    \o (IF has_substring(folder_request.folderName, <<".", ".">>)
           \/ has_substring(folder_request.folderName, <<"/">>)
        THEN <<"Invalid folder name">> ELSE <<>>)

\* S3CreateFolderRequest.s3_key, as a text
folder_s3_key(folder_request) ==
    IF Truthy(folder_request.parentFolder)
        THEN strip_chars(folder_request.parentFolder.text, {"/"}) \o <<"/">>
                 \o folder_request.folderName \o <<"/">>
        ELSE folder_request.folderName \o <<"/">>

RECURSIVE join(_)

\* The string of a text.
join(t) == IF t = <<>> THEN "" ELSE Head(t) \o join(Tail(t))

RECURSIVE split_segments(_, _)

\* The '/'-separated segments of a key text: the key of the store.
split_segments(t, segment) ==
    IF t = <<>> THEN <<join(segment)>>
    ELSE IF Head(t) = "/" THEN <<join(segment)>> \o split_segments(Tail(t), <<>>)
    ELSE split_segments(Tail(t), Append(segment, Head(t)))

\* S3Service.create_folder: [raised, errors, calls, store]
S3Service_create_folder(bucket, folder_request, outcome) ==
    LET errors == S3CreateFolderRequest_errors(folder_request)
        key == folder_s3_key(folder_request)
        call == [op |-> "put_object",
                 params |-> [Bucket |-> S3_BUCKET_NAME, Key |-> key, Body |-> <<>>,
                             ContentType |-> "application/x-directory"]]
    IN  IF errors # <<>>
        THEN [raised |-> "ValueError", errors |-> errors, calls |-> <<>>,
              store |-> bucket]
        ELSE IF outcome # "ok"
        THEN [raised |-> "Failed to create folder", errors |-> <<>>,
              calls |-> <<call>>, store |-> bucket]
        ELSE [raised |-> None, errors |-> <<>>, calls |-> <<call>>,
              store |-> bucket \cup {split_segments(key, <<>>)}]

FolderNameAlphabet == {"a", "1", "-", "_", "/", ".", " "}

MaxFolderNameLen == 3

RequestFolderNames == TextsUpTo(FolderNameAlphabet, MaxFolderNameLen)

\* The store holds at most this many objects in the behaviours of the model.
MaxObjects == 3

CreateFolderCall ==
    /\ last = Idle
    /\ Cardinality(store) < MaxObjects
    /\ \E folderName \in RequestFolderNames \cup {<<"a", "-", "b", "_", "1">>},
          parentFolder \in {Absent, Text(<<"p">>), Text(<<"/", "p", "/">>)},
          outcome \in StoreOutcomes :
          LET folder_request == [folderName |-> folderName,
                                 parentFolder |-> parentFolder]
              r == S3Service_create_folder(store, folder_request, outcome)
          IN  /\ store' = r.store
              /\ last' = Called("S3Service.create_folder", folder_request, outcome,
                                r.calls, r.raised, r.errors)
    /\ UNCHANGED <<users, audit, now, held, login_user, logged_out, remote>>
    /\ UNCHANGED <<policies, workers>>

CreateFolderNext == CreateFolderCall \/ Deliver

SpecCreateFolder == Init /\ [][CreateFolderNext]_vars

(* C24: create_folder accepts a folder name exactly when it is non-empty   *)
(* and consists only of letters, digits, '-' and '_': 'a/b' always fails   *)
(* validation with no object written, 'a-b_1' always passes, and on        *)
(* success exactly one zero-byte marker object is written at the folder    *)
(* key ending in '/'.                                                      *)

C24_NameAllowed(t) ==
    t # <<>> /\ \A i \in 1..Len(t) : t[i] \in {"a", "b", "0", "1", "-", "_"}

C24_Reached ==
    /\ last.ep = "S3Service.create_folder"
    /\ last.args.folderName = <<"a", "-", "b", "_", "1">>
    /\ last.raised = None
    /\ <<"a-b_1", "">> \in store

C24_AcceptsExactlyAllowedNames ==
    last'.ep = "S3Service.create_folder" =>
        /\ (last'.raised # "ValueError") <=> C24_NameAllowed(last'.args.folderName)
        /\ last'.raised = "ValueError" => last'.calls = <<>> /\ store' = store
        /\ last'.raised = None =>
              /\ Len(last'.calls) = 1
              /\ last'.calls[1].op = "put_object"
              /\ last'.calls[1].params.Body = <<>>
              /\ last'.calls[1].params.Key[Len(last'.calls[1].params.Key)] = "/"
              /\ Cardinality(store' \ store) <= 1

C24_FolderNameRule == [][C24_AcceptsExactlyAllowedNames]_vars

----------------------------------------------------------------------------
(* services/s3_service.py list_objects: the page it builds from a          *)
(* list_objects_v2 response, and a caller that follows the tokens          *)

\* S3Object.from_aws_response
S3Object_from_aws_response(aws_object) ==
    [Key |-> aws_object.Key, Size |-> aws_object.Size,
     LastModified |-> aws_object.LastModified, StorageClass |-> "STANDARD"]

\* The S3Object list_objects makes of a common prefix.
folder_obj(prefix) ==
    [Key |-> prefix.Prefix, Size |-> 0, LastModified |-> now,
     StorageClass |-> "DIRECTORY"]

\* A list_objects that keeps the folder-marker keys among the files.
list_objects_page_with_markers(bucket, list_request) ==
    LET response == list_objects_v2(bucket, list_request.prefix,
                                    list_request.delimiter, list_request.maxKeys,
                                    list_request.continuationToken)
        folders == [i \in 1..Len(response.CommonPrefixes) |->
                        folder_obj(response.CommonPrefixes[i])]
        files == [i \in 1..Len(response.Contents) |->
                        S3Object_from_aws_response(response.Contents[i])]
    IN  [objects |-> folders \o files,
         has_more |-> response.IsTruncated,
         next_token |-> IF response.IsTruncated
                            THEN response.NextContinuationToken ELSE 0]

\* The statements of list_objects after validate(): the continuation token
\* 0 is no token (None).
list_objects_page(bucket, list_request) ==
    LET response == list_objects_v2(bucket, list_request.prefix,
                                    list_request.delimiter, list_request.maxKeys,
                                    list_request.continuationToken)
        folders == [i \in 1..Len(response.CommonPrefixes) |->
                        folder_obj(response.CommonPrefixes[i])]
        kept == SelectSeq(response.Contents, LAMBDA obj : ~endswith_slash(obj.Key))
        files == [i \in 1..Len(kept) |-> S3Object_from_aws_response(kept[i])]
    IN  [objects |-> folders \o files,
         has_more |-> response.IsTruncated,
         next_token |-> IF response.IsTruncated
                            THEN response.NextContinuationToken ELSE 0]

\* The buckets of the paged listings: every set of the keys, one size and
\* one timestamp.
ListedBuckets ==
    {bucket \in Buckets :
        \A i \in 1..Len(ListingKeys) :
            bucket[i].present => bucket[i].Size = 1 /\ bucket[i].LastModified = 1}

ListedPrefixes == {<<>>, <<"a", "">>}

\* One list_objects call of a caller that has the pages before it.
list_objects_step(bucket, prefix, maxKeys, token, yielded, pages) ==
    LET list_request == [prefix |-> prefix, delimiter |-> "/", maxKeys |-> maxKeys,
                         continuationToken |-> token]
        r == list_objects_page(bucket, list_request)
    IN  Called("S3Service.list_objects",
               [bucket |-> bucket, list_request |-> list_request], "none",
               <<"list_objects_v2">>, None,
               [objects |-> r.objects, has_more |-> r.has_more,
                next_token |-> r.next_token, yielded |-> yielded \o r.objects,
                pages |-> pages + 1])

\* The first call: no continuation token.
ListFirstPage ==
    /\ last = Idle
    /\ \E bucket \in ListedBuckets, prefix \in ListedPrefixes, maxKeys \in {1, 2, 1000} :
          last' = list_objects_step(bucket, prefix, maxKeys, 0, <<>>, 0)
    /\ UNCHANGED <<users, audit, now, held, login_user, logged_out, remote, store>>
    /\ UNCHANGED <<policies, workers>>

\* The next call: the token the last page returned.
ListNextPage ==
    /\ last.ep = "S3Service.list_objects"
    /\ last.returned.has_more
    /\ last' = list_objects_step(last.args.bucket, last.args.list_request.prefix,
                                 last.args.list_request.maxKeys,
                                 last.returned.next_token,
                                 last.returned.yielded, last.returned.pages)
    /\ UNCHANGED <<users, audit, now, held, login_user, logged_out, remote, store>>
    /\ UNCHANGED <<policies, workers>>

PagesNext == ListFirstPage \/ ListNextPage \/ Deliver

SpecPages == Init /\ [][PagesNext]_vars

(* C25: cursor pagination of list_objects is complete and duplicate-free:  *)
(* each page holds the store's common prefixes as zero-size folder entries *)
(* followed by the page's objects without the folder-marker keys, and      *)
(* returns the store's truncation flag and next token; following the       *)
(* tokens from the first call until has-more is false yields every         *)
(* non-marker object under the prefix exactly once.                        *)

C25_Listing == last.ep = "S3Service.list_objects"

C25_Done == C25_Listing /\ ~last.returned.has_more

C25_Files(objects) == SelectSeq(objects, LAMBDA o : o.StorageClass # "DIRECTORY")

C25_FolderEntries(objects) == SelectSeq(objects, LAMBDA o : o.StorageClass = "DIRECTORY")

C25_Keys(objects) == {objects[i].Key : i \in 1..Len(objects)}

C25_NoDuplicates(objects) ==
    \A i, j \in 1..Len(objects) : objects[i].Key = objects[j].Key => i = j

\* the keys of the bucket that start with the prefix and do not end in '/'
C25_UnderPrefix(bucket, prefix) ==
    {ListingKeys[i] : i \in {j \in 1..Len(ListingKeys) :
        /\ bucket[j].present
        /\ ListingKeys[j][Len(ListingKeys[j])] # ""
        /\ Len(ListingKeys[j]) >= Len(prefix)
        /\ \A k \in 1..(Len(prefix) - 1) : ListingKeys[j][k] = prefix[k]}}

C25_Depth(prefix) == IF prefix = <<>> THEN 0 ELSE Len(prefix) - 1

\* those of them with no '/' after the prefix
C25_DirectlyUnder(bucket, prefix) ==
    {key \in C25_UnderPrefix(bucket, prefix) : Len(key) = C25_Depth(prefix) + 1}

\* the folders right under the prefix that hold a key of the bucket
C25_FoldersUnder(bucket, prefix) ==
    {Append(SubSeq(ListingKeys[i], 1, C25_Depth(prefix) + 1), "") :
        i \in {j \in 1..Len(ListingKeys) :
                  /\ bucket[j].present
                  /\ Len(ListingKeys[j]) >= C25_Depth(prefix) + 2
                  /\ \A k \in 1..C25_Depth(prefix) : ListingKeys[j][k] = prefix[k]}}

C25_EveryObjectOnce ==
    C25_Done =>
        /\ C25_NoDuplicates(C25_Files(last.returned.yielded))
        /\ C25_Keys(C25_Files(last.returned.yielded))
               = C25_UnderPrefix(last.args.bucket, last.args.list_request.prefix)

(* C25, as the code has it: the listing is made with Delimiter '/', so the *)
(* objects it yields are those directly under the prefix; an object deeper *)
(* under the prefix is not yielded but stands behind the folder entry of   *)
(* its common prefix, which is yielded exactly once.                       *)

C25_PageShape ==
    C25_Listing =>
        LET objects == last.returned.objects
            folders == C25_FolderEntries(objects)
        IN  /\ objects = folders \o C25_Files(objects)
            /\ Len(objects) <= last.args.list_request.maxKeys
            /\ \A i \in 1..Len(objects) :
                  /\ objects[i].StorageClass = "DIRECTORY"
                        => objects[i].Size = 0 /\ endswith_slash(objects[i].Key)
                  /\ objects[i].StorageClass # "DIRECTORY"
                        => ~endswith_slash(objects[i].Key)
            /\ last.returned.has_more => last.returned.next_token > 0

C25_DirectObjectsOnce ==
    C25_Done =>
        LET bucket == last.args.bucket
            prefix == last.args.list_request.prefix
            yielded == last.returned.yielded
        IN  /\ C25_NoDuplicates(yielded)
            /\ C25_Keys(C25_Files(yielded)) = C25_DirectlyUnder(bucket, prefix)
            /\ C25_Keys(C25_FolderEntries(yielded)) = C25_FoldersUnder(bucket, prefix)

C25_Witness ==
    /\ C25_Done
    /\ last.returned.pages >= 3
    /\ last.args.list_request.prefix = <<"a", "">>
    /\ C25_Keys(last.returned.yielded) = {<<"a", "d", "">>, <<"a", "x">>, <<"a", "y">>}

C25_PagesCompleteAtTheirLevel == C25_PageShape /\ C25_DirectObjectsOnce

----------------------------------------------------------------------------
(* The database session of AuthService: the statements a call issues on    *)
(* db.session, with one of its commits failing or none.  A session whose   *)
(* commit has raised stays in its failed transaction until rollback().     *)

\* The db.session statements of create_user on the branch the call takes.
create_user_statements(username) ==
    IF first_by_username(users, username).exists
        THEN <<"query">>
        ELSE <<"query", "add", "commit">>

\* Those of authenticate: update_last_login() is the first commit of the
\* branch of valid credentials.
authenticate_statements(username, password) ==
    IF authenticate(username, password).ok
        THEN <<"query", "commit", "add", "commit">>
        ELSE <<"query", "add", "commit">>

\* Those of change_password.
change_password_statements(username, current_password, new_password) ==
    IF change_password(PyStr(username), current_password, new_password).ok
        THEN <<"query", "commit", "add", "commit">>
        ELSE <<"query">>

\* The except branch of each method: the statements it issues on db.session.
AuthService_except(method) ==
    CASE method = "AuthService.create_user" -> <<"rollback">>
      [] method = "AuthService.authenticate" -> <<>>
      [] method = "AuthService.change_password" -> <<"rollback">>

\* The statements a call issues when its failing-th statement raises
\* (0: none raises): those up to it, then those of the except branch.
session_calls(method, statements, failing) ==
    IF failing = 0 THEN statements
    ELSE SubSeq(statements, 1, failing) \o AuthService_except(method)

\* The state the statements leave db.session in.
RECURSIVE session_after(_, _, _)
session_after(session, calls, failing) ==
    IF calls = <<>> THEN session
    ELSE session_after(CASE Head(calls) = "rollback" -> "clean"
                         [] Head(calls) = "commit" /\ failing = 1 -> "failed"
                         [] Head(calls) = "commit" /\ session = "failed" -> "failed"
                         [] Head(calls) = "commit" -> "clean"
                         [] OTHER -> IF session = "failed" THEN "failed"
                                     ELSE IF Head(calls) = "add" THEN "pending"
                                     ELSE session,
                       Tail(calls), failing - 1)

\* The commits of a call that may fail, and 0 for none.
failing_commits(statements) ==
    {0} \cup {i \in 1..Len(statements) : statements[i] = "commit"}

\* What the call has committed when its failing-th statement raised: the
\* effect of the branch up to the commit before it.
SessionCall(method, args, statements, failing, whole, first_commit) ==
    LET calls == session_calls(method, statements, failing)
        done == IF failing = 0 THEN whole
                ELSE IF \E i \in 1..(failing - 1) : statements[i] = "commit"
                     THEN first_commit
                ELSE [ok |-> FALSE, users |-> users, audit |-> audit]
    IN  /\ users' = done.users
        /\ audit' = done.audit
        /\ last' = Called(method, args,
                          IF failing = 0 THEN "none" ELSE "commit", calls, None,
                          [value |-> failing = 0 /\ whole.ok,
                           failing |-> failing,
                           session |-> session_after("clean", calls, failing)])

SessionCreateUser ==
    /\ last = Idle
    /\ \E p \in Profiles :
          LET statements == create_user_statements(p.username)
              r == create_user_local(p.username, "secret1", p.email, p.role)
          IN  \E failing \in failing_commits(statements) :
                 SessionCall("AuthService.create_user",
                             [username |-> p.username, password |-> "secret1",
                              new_password |-> None],
                             statements, failing,
                             [ok |-> r.created, users |-> r.users, audit |-> audit],
                             [ok |-> FALSE, users |-> users, audit |-> audit])
    /\ UNCHANGED <<now, held, login_user, logged_out, remote, store>>
    /\ UNCHANGED <<policies, workers>>

SessionAuthenticate ==
    /\ last = Idle
    /\ Len(audit) < MaxAudit
    /\ \E username \in LoginNames, password \in Passwords :
          LET statements == authenticate_statements(username, password)
          IN  \E failing \in failing_commits(statements) :
                 SessionCall("AuthService.authenticate",
                             [username |-> username, password |-> password,
                              new_password |-> None],
                             statements, failing,
                             authenticate(username, password),
                             authenticate_audit_failing(username, password))
    /\ UNCHANGED <<now, held, login_user, logged_out, remote, store>>
    /\ UNCHANGED <<policies, workers>>

SessionChangePassword ==
    /\ last = Idle
    /\ Len(audit) < MaxAudit
    /\ \E username \in LoginNames, current_password \in Passwords,
          new_password \in {"secret2"} :
          LET statements == change_password_statements(username, current_password,
                                                        new_password)
          IN  \E failing \in failing_commits(statements) :
                 SessionCall("AuthService.change_password",
                             [username |-> username, password |-> current_password,
                              new_password |-> new_password],
                             statements, failing,
                             change_password(PyStr(username), current_password,
                                             new_password),
                             change_password_audit_failing(PyStr(username),
                                                           current_password,
                                                           new_password))
    /\ UNCHANGED <<now, held, login_user, logged_out, remote, store>>
    /\ UNCHANGED <<policies, workers>>

SessionNext ==
    \/ SessionCreateUser
    \/ SessionAuthenticate
    \/ SessionChangePassword
    \/ Deliver

SpecSession == Init /\ [][SessionNext]_vars

(* C26: every database write of AuthService (create_user, authenticate     *)
(* with its last-login and audit writes, change_password) that fails is    *)
(* followed by an explicit rollback of the session before the failure is   *)
(* reported, so no call ends with its failed transaction still pending on  *)
(* the session.                                                            *)

C26_FailedWrite ==
    /\ last.ep \in {"AuthService.create_user", "AuthService.authenticate",
                    "AuthService.change_password"}
    /\ last.faults = "commit"

C26_RolledBack ==
    C26_FailedWrite =>
        /\ last.calls[Len(last.calls)] = "rollback"
        /\ last.returned.session = "clean"
        /\ ~last.returned.value

C26_FailedWritesRolledBack == C26_RolledBack

(* C27: for every verified identity whose role is user or readonly,       *)
(* DELETE /api/delete/{key}, POST /api/move and POST /api/create-folder    *)
(* are answered 403 for every key, keys under the identity's own           *)
(* '<username>/' prefix included: delete_file, move_file and create_folder *)
(* belong to no non-admin role, so the guard refuses the request, the      *)
(* handler with its ownership check does not run and the object store is   *)
(* not touched.                                                            *)

C27_ByUserOrReadonly(answer) ==
    /\ answer.ep \in {"delete_object", "move_object", "create_folder"}
    /\ verify_jwt_in_request(answer.cred, FALSE) = "ok"
    /\ get_jwt_identity(answer.cred).role \in {"user", "readonly"}

C27_Refused ==
    C27_ByUserOrReadonly(last) =>
        /\ last.status = 403
        /\ last.error = "Insufficient permissions"
        /\ ~HandlerRan
        /\ last.calls = <<>>

C27_StoreKept ==
    (last = Idle /\ last' # Idle /\ C27_ByUserOrReadonly(last')) => store' = store

----------------------------------------------------------------------------
(* controllers/s3_controller.py generate_upload_url with its JSON body     *)

\* request.get_json() of a request whose body is missing or {}
NoData == [given |-> FALSE, fileName |-> <<>>, fileSize |-> 0, contentType |-> "",
           folder |-> Absent]

\* The bodies of the upload requests: a file name, a size, a content type
\* and a folder or none.
UploadBodies ==
    {[given |-> TRUE, fileName |-> fileName, fileSize |-> fileSize,
      contentType |-> "text/plain", folder |-> folder] :
        fileName \in {<<"f">>, <<".", ".">>},
        fileSize \in {0, 1},
        folder \in {Absent, Text(<<"b", "o", "b">>), Text(<<"a", "l", "i", "c", "e">>),
                    Text(<<"/", "b", "o", "b", "/">>)}}

\* POST /api/upload
generate_upload_url_of(cred, data) ==
    LET guard == permission_required("upload_file", cred)
        upload_request == [fileName |-> data.fileName, fileSize |-> data.fileSize,
                           contentType |-> data.contentType, folder |-> data.folder]
        req == [NoReq EXCEPT !.key = split_segments(s3_key(upload_request), <<>>)]
        r == S3Service_generate_upload_url(upload_request)
    IN  IF ~guard.pass THEN Refused("generate_upload_url", cred, req, guard)
        ELSE IF ~data.given
        THEN Answer("generate_upload_url", cred, req, Handled(guard), 400,
                    "Invalid request", <<>>, NoBody)
        ELSE IF r.raised = "ValueError"
        THEN Answer("generate_upload_url", cred, req, Handled(guard), 400,
                    "Validation error", <<>>, NoBody)
        ELSE Answer("generate_upload_url", cred, req, Handled(guard), 200, None,
                    [i \in 1..Len(r.calls) |-> r.calls[i].op], NoBody)

PostUpload ==
    /\ last = Idle
    /\ \E cred \in Credentials, data \in UploadBodies \cup {NoData} :
          last' = generate_upload_url_of(cred, data)
    /\ UNCHANGED <<users, audit, now, held, login_user, logged_out, remote, store>>
    /\ UNCHANGED <<policies, workers>>

UploadRouteNext ==
    \/ ProvisionAccount
    \/ Login
    \/ PostUpload
    \/ Deliver

SpecUploadRoute == Init /\ [][UploadRouteNext]_vars

(* C28: a non-admin identity can obtain a presigned upload URL only for a  *)
(* key under its own '<username>/' prefix: POST /api/upload by a non-admin *)
(* whose resulting key (folder/fileName) does not start with the           *)
(* requester's username followed by '/' is answered 403 and no presigned   *)
(* post is generated.                                                      *)

C28_ForeignKey ==
    /\ last.ep = "generate_upload_url"
    /\ LastVerify = "ok"
    /\ LastIdentity.role # "admin"
    /\ ~startswith_user(last.req.key, LastIdentity.username)

C28_OwnPrefixOnly ==
    C28_ForeignKey => last.status = 403 /\ last.calls = <<>>

(* C30: POST /api/create-user, PUT /api/users/{username} and              *)
(* DELETE /api/delete-user/{username} act only on the remote directory    *)
(* and leave the local credential store unchanged: none of them adds,      *)
(* changes or removes an account row, so a login as a user created through *)
(* the API is still refused (401), and the local account of a user deleted *)
(* through the API can still log in.                                       *)

C30_DirectoryStep ==
    /\ last = Idle
    /\ last'.ep \in {"create_user", "update_user", "delete_user"}

C30_LocalStoreKept ==
    C30_DirectoryStep =>
        /\ users' = users
        /\ audit' = audit
        /\ \A username \in LoginNames, password \in Passwords :
              authenticate(username, password).ok'
                  = authenticate(username, password).ok

\* The answer of a login depends on the local account alone.
C30_LoginByLocalAccount ==
    (last.ep = "login" /\ last.status \in {200, 401}) =>
        LET account == first_by_username(users, last.req.username)
        IN  last.status = 200 <=>
                /\ account.exists /\ account.is_active
                /\ check_password(account, last.req.password)

C30_Witness ==
    /\ last.ep = "create_user"
    /\ last.status = 201
    /\ last.req.username = "bob"
    /\ "bob" \in remote
    /\ ~users["bob"].exists
    /\ \A password \in Passwords : ~authenticate("bob", password).ok
    /\ authenticate("admin", "admin").ok

C30_DirectoryOnly == [][C30_LocalStoreKept]_vars /\ []C30_LoginByLocalAccount

====
